---- MODULE Spec2Model ----
(***************************************************************************)
(* A model of the price-caching core of PeakStrategy's backend:            *)
(*   - StockPriceService (app/services/stock_price_service.py): the        *)
(*     request coalescer _deduplicated_fetch, get_price, get_prices and    *)
(*     the provider retry loops;                                           *)
(*   - the SEC rate limiter of                                             *)
(*     app/services/portfolio_builder/thirteen_f_filings_service.py.       *)
(*                                                                         *)
(* Three specifications share the module:                                  *)
(*   Spec       threads calling get_price / get_prices concurrently        *)
(*   SpecFetch  the three provider retry loops, one call at a time         *)
(*   SpecRate   callers of _rate_limit_redis against the shared counter    *)
(***************************************************************************)
EXTENDS Integers, Naturals, Sequences, FiniteSets, TLC

\* ------------------------------------------------------------------ bounds
NumThreads == 3
NumSymbols == 1
MaxPrice == 1
NumCallers == 2
TicksPerSecond == 2
MaxIntraday == 2
Step == 30
NumBatch == 2
MaxRefreshes == 2
MaxTasks == 2
\* The latencies recorded are 1..MaxLatency ms.
MaxLatency == 2
\* The calls recorded one by one for a service.
MaxCalls == 3
\* The index loads that raise.
MaxFailures == 1

Threads == 1..NumThreads
Callers == 1..NumCallers
Symbols == 1..NumSymbols
\* The symbols of a get_prices call, and all symbols with a price key.
BatchSymbols == 1..NumBatch
Keys == Symbols \cup BatchSymbols
\* The prices the provider reports: positive floats.
Prices == 1..MaxPrice

\* ----------------------------------------------------------- Python values
PyNone == [kind |-> "None"]
PyFloat(v) == [kind |-> "float", val |-> v]
\* An exception leaving the fetch function.
PyRaise == [kind |-> "raise"]
Floats == {PyFloat(v) : v \in Prices}
IsPositive(r) == r \in Floats /\ r.val > 0

\* A key absent from a dict / cache tier.
Absent == [kind |-> "absent"]
\* _pending_fetches[request_key] = (event, result); an Event is named by
\* the thread that created it.
Entry(e, r) == [kind |-> "entry", event |-> e, result |-> r]

\* The StockPriceService constants.
max_retries == 3
\* The SEC limiter's quota.
SEC_REQ_PER_SECOND == 8
\* The CacheWarmingService configuration.
max_response_times == 100
\* self._request_timeout = 60 (api_metrics_service.py line 51).
request_timeout == 60
warm_interval == 600
min_access_count == 3
\* RedisService._l1_ttl and the StockPriceService TTL configuration.
l1_ttl == 60
REDIS_TTL == 90
SUPABASE_TTL_MARKET_OPEN == 300
SUPABASE_TTL_MARKET_CLOSED == 3600
SUPABASE_TTL_EXTENDED == 14400

VARIABLES
    \* ---- StockPriceService (Spec)
    pending_fetches,   \* self._pending_fetches: symbol -> Absent or Entry
    eventSet,          \* thread -> whether the Event it created is set
    fetch_lock,        \* holder of self._fetch_lock across steps (0: free)
    cleanups,          \* symbol -> cleanup threads started and not yet run
    redis,             \* RedisService price entry per symbol (Absent or float)
    supabase,          \* 'stock' row price per symbol (Absent or float)
    saves,             \* started save threads: set of dicts symbol -> price
    pc,                \* thread -> position
    req,               \* thread -> the symbols it asked for
    price,             \* thread -> get_price: price `result` / `price`
    todo,              \* thread -> get_prices: symbols still to look up
    results,           \* thread -> get_prices: results dict (symbol -> float)
    fetched_prices,    \* thread -> get_prices: dict _batch_fetch_prices returned
    attempt,           \* thread -> loop variable of _try_yfinance_batch
    ret,               \* thread -> returned value (Absent while running)
    \* ---- history (not program state)
    joined,            \* follower -> creator of the Event it waits on (0: none)
    timedOut,          \* follower -> its event.wait(timeout=30) expired
    fetched,           \* leader -> what its fetch_func produced
    provCalls,         \* thread -> provider downloads it issued
    \* ---- the SEC rate limiter (SpecRate)
    phase,             \* tick of the clock within the current unix second
    sec_rate,          \* Redis counters "sec_rate:<second>": <<this second, the one before>>
    rpc,               \* caller -> position in sec_get / _rate_limit_redis
    keyAge,            \* caller -> its `key`: 1 this second's, 2 the one before's
    sleepLeft,         \* caller -> ticks left of its time.sleep(1.0)
    released,          \* callers released at each of the last ticks (newest first)
    \* ---- the provider retry loops (SpecFetch)
    fop,               \* the running fetch: "none" | "single" | "batch" |
                       \* "intraday" (in a symbol's loop) | "intraday_next" (between two)
    fattempt,          \* its loop variable `attempt`
    fleft,             \* _fetch_intraday_batch: symbols not yet started
    fcalls,            \* primary-provider calls of the running loop
    flimited,          \* how many of them were answered 429 / rate limited
    fresult,           \* what the fetch returned (Absent while running)
    fdata,             \* _fetch_intraday_batch: its `data` dict
    ffail,             \* how the provider answered the last call: "none" (no call
                       \* yet) | "data" | "empty" | "limited" | "transient" | "permanent"
    secondary,         \* what the secondary provider answers for the key
                       \* (None before the first fetch)
    \* ---- the cache tiers over time (SpecCache)
    l1_cache,          \* symbol -> InMemoryCache item of its price key (or Absent)
    l2,                \* symbol -> the Redis server's entry of its price key (or Absent)
    client,            \* RedisService.client: "none" | "up" | "raising"
    l3,                \* symbol -> its row of the Supabase 'stock' table (or Absent)
    supabase_client,   \* StockPriceService.supabase: "none" | "up" | "raising"
    background_refresh_queue,  \* set of symbols queued for a refresh
    last,              \* the cache operation completed last (history)
    redis_type,        \* RedisService._redis_type: "none" | "upstash" | "local"
    obtained,          \* symbol -> the price a get_price obtained from below L1
                       \* less than l1_ttl seconds ago, and its age (history)
    \* ---- the background refresh worker (SpecRefresh)
    wpc,               \* the worker: "sleep" | "fetch"
    symbols_to_refresh,  \* the worker's list of symbols
    refreshes,         \* symbol -> refreshes started for it since its row last
                       \* aged or a refresh of it failed (history)
    \* ---- CacheWarmingService (SpecWarm)
    is_warming,        \* _is_warming
    since_warm,        \* time.time() - _last_warm_time, in seconds (capped)
    popular_symbols,   \* _popular_symbols
    symbol_access_counts,  \* _symbol_access_counts (kept up to min_access_count)
    mpc,               \* thread -> position in start_background_warming
    mres,              \* thread -> how its last start_background_warming ended
    tpc,               \* warming thread -> position in _warm_cache_background
    tsymbols,          \* warming thread -> its `symbols`
    since_run,         \* seconds since a warming run last ended (capped; history)
    \* ---- APIMetricsService (SpecMetrics)
    metrics,           \* _metrics: service -> its APICallMetrics
    response_times,    \* _response_times: service -> list of latencies
    recorded,          \* service -> every latency recorded for it (history)
    \* ---- the SEC index loaders (SpecLoad)
    index,             \* loader -> its class-level cache: None or the index
    load_lock,         \* loader -> the thread inside `with cls._load_lock` (0: none)
    lpc,               \* thread -> position in the loader it called
    loader,            \* thread -> the loader it called
    lret,              \* thread -> how its last call ended
    downloads,         \* loader -> sec_get calls made (history)
    failures,          \* loader -> loads that raised (history)
    \* ---- the access tracking of CacheWarmingService (SpecAccess)
    attempts,          \* caller -> requests of its sec_get call that failed and are
                       \* retried by _sec_get_with_retry (SpecRetry)
    windowed,          \* whether the releases of each tick are recorded (history)
    granted,           \* callers released on this second's key and on the one
                       \* before's (history)
    refused,           \* sleeping caller -> the key its count exceeded the quota
                       \* on: 1 this second's, 2 an earlier one; else 0 (history)
    \* ---- SEC limiter, local fallback (SpecLocal)
    local_rate_lock,   \* holder of _local_rate_lock (0: free)
    qpc,               \* caller -> position in sec_get / _rate_limit_local
    since_request,     \* ticks from _local_last_request_time to now, capped at
                       \* TicksPerSecond
    local_sleep,       \* ticks the holder's time.sleep still has to last
    local_gap,         \* ticks between the last two assignments of
                       \* _local_last_request_time, capped (history)
    local_released,    \* assignments of _local_last_request_time, capped at 2
                       \* (history)
    \* ---- APIMetricsService request registry (SpecRequests)
    pending_requests,  \* self._pending_requests[request_key]: Absent or the entry
    dpc,               \* thread -> "idle", "leader" (between a granted
                       \* acquire_request_lock and its complete_request) or
                       \* "follower" (in wait_for_request)
    \* ---- the 'stock' table with its previous_close column (SpecStock)
    stock,             \* symbol -> Absent or the row of the symbol
    save_threads,      \* the started save threads, each with its data_dict
    saved,             \* the last upsert: its data_dict and the rows before
    \* ---- RedisService.get against delete (SpecDelete)
    gpc,               \* caller -> position in RedisService.get
    gread,             \* caller -> the value its client.get returned
    deleted,           \* key -> delete(key) has returned and no set(key) was
                       \* issued since (history)
    access_span        \* symbol -> seconds from its first counted access to now
                       \* or, once popular, to the access that made it so
                       \* (capped; history)

varsP == <<pending_fetches, eventSet, fetch_lock, cleanups, redis, supabase,
           saves, pc, req, price, todo, results, fetched_prices, attempt, ret,
           joined, timedOut, fetched, provCalls>>

varsR == <<phase, sec_rate, rpc, keyAge, sleepLeft, released>>
varsF == <<fop, fattempt, fleft, fcalls, flimited, fresult, fdata, ffail, secondary>>

varsC == <<l1_cache, l2, client, l3, supabase_client,
           background_refresh_queue, last, redis_type, obtained>>

varsW == <<wpc, symbols_to_refresh, refreshes>>

varsM == <<is_warming, since_warm, popular_symbols, symbol_access_counts,
           mpc, mres, tpc, tsymbols, since_run>>

varsA == <<metrics, response_times, recorded>>

varsL == <<index, load_lock, lpc, loader, lret, downloads, failures>>

varsT == <<access_span>>

varsS == <<attempts>>

varsG == <<windowed, granted, refused>>

varsD == <<pending_requests, dpc>>

varsE == <<gpc, gread, deleted>>

varsH == <<stock, save_threads, saved>>

varsO == <<local_rate_lock, qpc, since_request, local_sleep, local_gap,
          local_released>>

vars == <<varsP, varsR, varsF, varsC, varsW, varsM, varsA, varsL, varsT, varsS, varsG, varsO, varsD, varsE, varsH>>

\* The symbol of a get_price call.
Sym(t) == CHOOSE s \in req[t] : TRUE

\* ======================================================== StockPriceService
InitP ==
    /\ pending_fetches = [s \in Symbols |-> Absent]
    /\ eventSet = [t \in Threads |-> FALSE]
    /\ fetch_lock = 0
    /\ cleanups = [s \in Symbols |-> 0]
    /\ redis = [s \in Symbols |-> Absent]
    /\ supabase = [s \in Symbols |-> Absent]
    /\ saves = {}
    /\ pc = [t \in Threads |-> "idle"]
    /\ req = [t \in Threads |-> {}]
    /\ todo = [t \in Threads |-> {}]
    /\ results = [t \in Threads |-> <<>>]
    /\ fetched_prices = [t \in Threads |-> <<>>]
    /\ attempt = [t \in Threads |-> 0]
    /\ price = [t \in Threads |-> PyNone]
    /\ ret = [t \in Threads |-> Absent]
    /\ joined = [t \in Threads |-> 0]
    /\ timedOut = [t \in Threads |-> FALSE]
    /\ fetched = [t \in Threads |-> Absent]
    /\ provCalls = [t \in Threads |-> 0]

coalescerVars == <<pending_fetches, eventSet, cleanups>>
cacheVars == <<redis, supabase, saves>>
callVars == <<req>>
batchVars == <<todo, results, fetched_prices, attempt, provCalls>>
histVars == <<joined, timedOut, fetched>>

\* Threads are numbered in the order of their calls.
Called(t) == \A u \in Threads : u < t => pc[u] # "idle"

\* Symbols are numbered in the order in which they are first asked for.
Asked == UNION {req[t] : t \in Threads}
Fresh(S) == \A s \in S : \A x \in Symbols : x < s => x \in Asked \cup S

\* ---- get_price (lines 305-391)

\* TIER 1: the call, and the Redis lookup when use_cache.
get_price_tier1(t) ==
    /\ pc[t] = "idle"
    /\ Called(t)
    /\ \E s \in Symbols, uc \in BOOLEAN :
        /\ Fresh({s})
        /\ req' = [req EXCEPT ![t] = {s}]
        /\ IF uc /\ redis[s] # Absent
              THEN /\ ret' = [ret EXCEPT ![t] = redis[s]]
                   /\ pc' = [pc EXCEPT ![t] = "done"]
              ELSE /\ ret' = ret
                   /\ pc' = [pc EXCEPT ![t] = IF uc THEN "tier2" ELSE "tier3"]
    /\ UNCHANGED <<varsR, varsF, varsC, varsW, varsM, varsA, varsL, varsT, varsS, varsG, varsO, varsD, varsE, varsH>>
    /\ UNCHANGED <<coalescerVars, cacheVars, batchVars, histVars, fetch_lock, price>>

\* TIER 2: _get_from_supabase; a row found is copied to Redis and returned.
get_price_tier2(t) ==
    /\ pc[t] = "tier2"
    /\ LET s == Sym(t) IN
        IF supabase[s] # Absent
          THEN /\ redis' = [redis EXCEPT ![s] = supabase[s]]
               /\ ret' = [ret EXCEPT ![t] = supabase[s]]
               /\ pc' = [pc EXCEPT ![t] = "done"]
          ELSE /\ pc' = [pc EXCEPT ![t] = "tier3"]
               /\ UNCHANGED <<redis, ret>>
    /\ UNCHANGED <<varsR, varsF, varsC, varsW, varsM, varsA, varsL, varsT, varsS, varsG, varsO, varsD, varsE, varsH>>
    /\ UNCHANGED <<coalescerVars, supabase, saves, callVars, batchVars, histVars,
                   fetch_lock, price>>

\* ---- _deduplicated_fetch (lines 255-303), called by _fetch_price (line 683)

\* A lookup that takes an entry whose Event is already set for absent.
InRegistryUnlessSet(s) ==
    pending_fetches[s] # Absent /\ ~eventSet[pending_fetches[s].event]

\* Whether the registry holds request_key (line 263).
InRegistry(s) == pending_fetches[s] # Absent

\* Lines 262-269: under _fetch_lock, join the entry found or insert one.
deduplicated_fetch_enter(t) ==
    /\ pc[t] = "tier3"
    /\ fetch_lock = 0
    /\ LET s == Sym(t) IN
        IF InRegistry(s)
          THEN /\ joined' = [joined EXCEPT ![t] = pending_fetches[s].event]
               /\ pc' = [pc EXCEPT ![t] = "waiting"]
               /\ UNCHANGED pending_fetches
          ELSE /\ pending_fetches' = [pending_fetches EXCEPT ![s] = Entry(t, PyNone)]
               /\ pc' = [pc EXCEPT ![t] = "fetching"]
               /\ UNCHANGED joined
    /\ UNCHANGED <<varsR, varsF, varsC, varsW, varsM, varsA, varsL, varsT, varsS, varsG, varsO, varsD, varsE, varsH>>
    /\ UNCHANGED <<eventSet, cleanups, cacheVars, callVars, batchVars,
                   timedOut, fetched, fetch_lock, price, ret>>

\* What fetch_func can do: return a float, return None, or raise (the
\* try/finally of lines 280-303 is the path of a raising fetch_func).
FetchOutcomes == Floats \cup {PyNone, PyRaise}

\* Line 282: the leader's fetch_func() ends.
deduplicated_fetch_call(t) ==
    /\ pc[t] = "fetching"
    /\ \E r \in FetchOutcomes :
        /\ fetched' = [fetched EXCEPT ![t] = r]
        /\ price' = [price EXCEPT ![t] = r]
        /\ provCalls' = [provCalls EXCEPT ![t] = 1]
        /\ pc' = [pc EXCEPT ![t] = IF r = PyRaise THEN "finally" ELSE "store"]
    /\ UNCHANGED <<varsR, varsF, varsC, varsW, varsM, varsA, varsL, varsT, varsS, varsG, varsO, varsD, varsE, varsH>>
    /\ UNCHANGED <<coalescerVars, cacheVars, callVars, todo, results, fetched_prices,
                   attempt, joined, timedOut, fetch_lock, ret>>

\* Lines 292-293: under _fetch_lock, the result is stored in the registry.
deduplicated_fetch_store(t) ==
    /\ pc[t] = "store"
    /\ fetch_lock = 0
    /\ pending_fetches' = [pending_fetches EXCEPT ![Sym(t)] = Entry(t, price[t])]
    /\ pc' = [pc EXCEPT ![t] = "finally"]
    /\ UNCHANGED <<varsR, varsF, varsC, varsW, varsM, varsA, varsL, varsT, varsS, varsG, varsO, varsD, varsE, varsH>>
    /\ UNCHANGED <<eventSet, cleanups, cacheVars, callVars, batchVars,
                   histVars, fetch_lock, price, ret>>

\* A finally block that starts the cleanup thread only when the fetch
\* function returned.
CleanupsAfterFinallyUnlessRaised(t) ==
    IF price[t] = PyRaise THEN cleanups
    ELSE [cleanups EXCEPT ![Sym(t)] = @ + 1]

\* Lines 298-303: the cleanup thread of request_key is started.
CleanupsAfterFinally(t) == [cleanups EXCEPT ![Sym(t)] = @ + 1]

\* Lines 296-303: event.set() and the start of the cleanup thread; a raised
\* exception then leaves _deduplicated_fetch, _fetch_price and get_price.
deduplicated_fetch_finally(t) ==
    /\ pc[t] = "finally"
    /\ eventSet' = [eventSet EXCEPT ![t] = TRUE]
    /\ cleanups' = CleanupsAfterFinally(t)
    /\ IF price[t] = PyRaise
          THEN /\ ret' = [ret EXCEPT ![t] = PyRaise]
               /\ pc' = [pc EXCEPT ![t] = "done"]
          ELSE /\ pc' = [pc EXCEPT ![t] = "writeback"]
               /\ UNCHANGED ret
    /\ UNCHANGED <<varsR, varsF, varsC, varsW, varsM, varsA, varsL, varsT, varsS, varsG, varsO, varsD, varsE, varsH>>
    /\ UNCHANGED <<pending_fetches, cacheVars, callVars, batchVars,
                   histVars, fetch_lock, price>>

\* Lines 298-302: a cleanup thread, after its sleep, deletes request_key.
cleanup(s) ==
    /\ cleanups[s] > 0
    /\ fetch_lock = 0
    /\ cleanups' = [cleanups EXCEPT ![s] = @ - 1]
    /\ pending_fetches' = [pending_fetches EXCEPT ![s] = Absent]
    /\ UNCHANGED <<varsR, varsF, varsC, varsW, varsM, varsA, varsL, varsT, varsS, varsG, varsO, varsD, varsE, varsH>>
    /\ UNCHANGED <<eventSet, cacheVars, pc, callVars, batchVars, histVars,
                   fetch_lock, price, ret>>

\* Line 273: event.wait(timeout=30) returns because the Event is set ...
deduplicated_fetch_wake(t) ==
    /\ pc[t] = "waiting"
    /\ eventSet[joined[t]]
    /\ pc' = [pc EXCEPT ![t] = "woken"]
    /\ UNCHANGED <<varsR, varsF, varsC, varsW, varsM, varsA, varsL, varsT, varsS, varsG, varsO, varsD, varsE, varsH>>
    /\ UNCHANGED <<coalescerVars, cacheVars, callVars, batchVars, histVars,
                   fetch_lock, price, ret>>

\* ... or because the 30 s expired first; the return value of wait is dropped.
deduplicated_fetch_timeout(t) ==
    /\ pc[t] = "waiting"
    /\ ~eventSet[joined[t]]
    /\ timedOut' = [timedOut EXCEPT ![t] = TRUE]
    /\ pc' = [pc EXCEPT ![t] = "woken"]
    /\ UNCHANGED <<varsR, varsF, varsC, varsW, varsM, varsA, varsL, varsT, varsS, varsG, varsO, varsD, varsE, varsH>>
    /\ UNCHANGED <<coalescerVars, cacheVars, callVars, batchVars, joined, fetched,
                   fetch_lock, price, ret>>

\* A follower that takes the entry away when its wait timed out.
RegistryAfterAbandonedWait(t) ==
    IF timedOut[t] THEN [pending_fetches EXCEPT ![Sym(t)] = Absent]
    ELSE pending_fetches

\* Lines 274-278: the registry after the follower's lookup; get reads.
RegistryAfterWait(t) == pending_fetches

\* Lines 274-278: under _fetch_lock, the follower returns the entry's result,
\* or None when the entry is gone.
deduplicated_fetch_read(t) ==
    /\ pc[t] = "woken"
    /\ fetch_lock = 0
    /\ LET e == pending_fetches[Sym(t)] IN
        price' = [price EXCEPT ![t] = IF e # Absent THEN e.result ELSE PyNone]
    /\ pending_fetches' = RegistryAfterWait(t)
    /\ pc' = [pc EXCEPT ![t] = "writeback"]
    /\ UNCHANGED <<varsR, varsF, varsC, varsW, varsM, varsA, varsL, varsT, varsS, varsG, varsO, varsD, varsE, varsH>>
    /\ UNCHANGED <<eventSet, cleanups, cacheVars, callVars, batchVars, histVars,
                   fetch_lock, ret>>

\* The history of a call ends with the call.
Forget(t) ==
    /\ joined' = [joined EXCEPT ![t] = 0]
    /\ timedOut' = [timedOut EXCEPT ![t] = FALSE]

\* Lines 374-391: a price > 0 is written to Redis and its Supabase save is
\* started; the price is returned.
get_price_writeback(t) ==
    /\ pc[t] = "writeback"
    /\ LET s == Sym(t) IN
        IF IsPositive(price[t])
          THEN /\ redis' = [redis EXCEPT ![s] = price[t]]
               /\ saves' = saves \cup {[x \in {s} |-> price[t]]}
          ELSE UNCHANGED <<redis, saves>>
    /\ ret' = [ret EXCEPT ![t] = price[t]]
    /\ pc' = [pc EXCEPT ![t] = "done"]
    /\ Forget(t)
    /\ UNCHANGED <<varsR, varsF, varsC, varsW, varsM, varsA, varsL, varsT, varsS, varsG, varsO, varsD, varsE, varsH>>
    /\ UNCHANGED <<coalescerVars, supabase, callVars, batchVars, fetched,
                   fetch_lock, price>>


\* ---- get_prices (lines 393-515)

\* A dict over some symbols; results and fetched_prices hold floats.
Dict(S) == [S -> Floats]
\* d with the entries of e added or replaced (dict.update).
Update(d, e) ==
    [s \in DOMAIN d \cup DOMAIN e |-> IF s \in DOMAIN e THEN e[s] ELSE d[s]]
PyDict(d) == [kind |-> "dict", map |-> d]
\* The Redis / Supabase entries among the symbols S.
Found(tier, S) == {s \in S : tier[s] # Absent}
\* The tier with the entries of dict d written (set_multi, upsert).
WriteMany(tier, d) == [s \in Symbols |-> IF s \in DOMAIN d THEN d[s] ELSE tier[s]]

\* Lines 403-441, TIER 1: the call, and get_multi on Redis when use_cache.
get_prices_tier1(t) ==
    /\ pc[t] = "idle"
    /\ Called(t)
    /\ \E S \in (SUBSET Symbols) \ {{}}, uc \in BOOLEAN :
        LET hit == IF uc THEN Found(redis, S) ELSE {} IN
        /\ Fresh(S)
        /\ req' = [req EXCEPT ![t] = S]
        /\ results' = [results EXCEPT ![t] = [s \in hit |-> redis[s]]]
        /\ todo' = [todo EXCEPT ![t] = S \ hit]
        /\ IF S \ hit = {}
              THEN /\ pc' = [pc EXCEPT ![t] = "done"]
                   /\ ret' = [ret EXCEPT ![t] = PyDict([s \in hit |-> redis[s]])]
              ELSE /\ pc' = [pc EXCEPT ![t] = IF uc THEN "btier2" ELSE "btier3"]
                   /\ UNCHANGED ret
    /\ UNCHANGED <<varsR, varsF, varsC, varsW, varsM, varsA, varsL, varsT, varsS, varsG, varsO, varsD, varsE, varsH>>
    /\ UNCHANGED <<coalescerVars, cacheVars, histVars, fetch_lock, price,
                   fetched_prices, attempt, provCalls>>

\* Lines 443-476, TIER 2: _get_many_from_supabase; rows found are results
\* and are copied to Redis.
get_prices_tier2(t) ==
    /\ pc[t] = "btier2"
    /\ LET hit == Found(supabase, todo[t])
           rows == [s \in hit |-> supabase[s]] IN
        /\ results' = [results EXCEPT ![t] = Update(@, rows)]
        /\ redis' = WriteMany(redis, rows)
        /\ todo' = [todo EXCEPT ![t] = @ \ hit]
        /\ IF todo[t] \ hit = {}
              THEN /\ pc' = [pc EXCEPT ![t] = "done"]
                   /\ ret' = [ret EXCEPT ![t] = PyDict(Update(results[t], rows))]
              ELSE /\ pc' = [pc EXCEPT ![t] = "btier3"]
                   /\ UNCHANGED ret
    /\ UNCHANGED <<varsR, varsF, varsC, varsW, varsM, varsA, varsL, varsT, varsS, varsG, varsO, varsD, varsE, varsH>>
    /\ UNCHANGED <<coalescerVars, supabase, saves, histVars, fetch_lock, price, req,
                   fetched_prices, attempt, provCalls>>

\* ---- _try_yfinance_batch (lines 594-651), called by _batch_fetch_prices

\* Lines 600-601: `with self._fetch_lock`, then yf.download is called.
try_yfinance_batch_acquire(t) ==
    /\ pc[t] = "btier3"
    /\ fetch_lock = 0
    /\ fetch_lock' = t
    /\ provCalls' = [provCalls EXCEPT ![t] = @ + 1]
    /\ pc' = [pc EXCEPT ![t] = "download"]
    /\ UNCHANGED <<varsR, varsF, varsC, varsW, varsM, varsA, varsL, varsT, varsS, varsG, varsO, varsD, varsE, varsH>>
    /\ UNCHANGED <<coalescerVars, cacheVars, histVars, price, req, todo, results,
                   fetched_prices, attempt, ret>>

\* A retry loop that runs one iteration too many.
InRangeInclusive(a) == a <= max_retries

\* `for attempt in range(self._max_retries)`: whether the loop body runs
\* for the value a (lines 598, 656, 813).
InRange(a) == a < max_retries

\* After a failed attempt: the next attempt, or the end of the loop
\* (lines 643-651).
AfterFailedAttempt(a) ==
    IF InRange(a + 1) THEN "btier3" ELSE "bstore"

\* Lines 601-641: yf.download returns under the lock. Prices extracted
\* for some symbols end the loop (line 626); empty data or an exception
\* leads to the next attempt.
try_yfinance_batch_download(t) ==
    /\ pc[t] = "download"
    /\ fetch_lock' = 0
    /\ \/ \E S \in (SUBSET todo[t]) \ {{}} : \E d \in Dict(S) :
            /\ fetched_prices' = [fetched_prices EXCEPT ![t] = d]
            /\ pc' = [pc EXCEPT ![t] = "bstore"]
            /\ UNCHANGED attempt
       \/ /\ pc' = [pc EXCEPT ![t] = AfterFailedAttempt(attempt[t])]
          /\ attempt' = [attempt EXCEPT ![t] = @ + 1]
          /\ UNCHANGED fetched_prices
    /\ UNCHANGED <<varsR, varsF, varsC, varsW, varsM, varsA, varsL, varsT, varsS, varsG, varsO, varsD, varsE, varsH>>
    /\ UNCHANGED <<coalescerVars, cacheVars, histVars, price, req, todo, results,
                   provCalls, ret>>

\* Lines 483-515: fetched prices > 0 are results, are written to Redis and
\* their Supabase save is started; the results are returned.
get_prices_store(t) ==
    /\ pc[t] = "bstore"
    /\ LET good == {s \in DOMAIN fetched_prices[t] : IsPositive(fetched_prices[t][s])}
           rows == [s \in good |-> fetched_prices[t][s]] IN
        /\ results' = [results EXCEPT ![t] = Update(@, rows)]
        /\ redis' = WriteMany(redis, rows)
        /\ saves' = IF good = {} THEN saves ELSE saves \cup {rows}
        /\ ret' = [ret EXCEPT ![t] = PyDict(Update(results[t], rows))]
    /\ pc' = [pc EXCEPT ![t] = "done"]
    /\ UNCHANGED <<varsR, varsF, varsC, varsW, varsM, varsA, varsL, varsT, varsS, varsG, varsO, varsD, varsE, varsH>>
    /\ UNCHANGED <<coalescerVars, supabase, histVars, fetch_lock, price, req, todo,
                   fetched_prices, attempt, provCalls>>

\* _save_to_supabase / _save_many_to_supabase (lines 206-247): the upsert of
\* a started save thread.
save_to_supabase ==
    \E rows \in saves :
        /\ supabase' = WriteMany(supabase, rows)
        /\ saves' = saves \ {rows}
        /\ UNCHANGED <<coalescerVars, redis, pc, callVars, batchVars, histVars,
                       fetch_lock, price, ret>>
        /\ UNCHANGED <<varsR, varsF, varsC, varsW, varsM, varsA, varsL, varsT, varsS, varsG, varsO, varsD, varsE, varsH>>

\* ---- _fetch_price (lines 653-683) called on its own

\* The entries of different keys never meet: every step of
\* _deduplicated_fetch reads and writes the entry of its request_key only.
\* SpecCoalescer follows the callers of one symbol.
OneSymbol == CHOOSE s \in Symbols : TRUE

\* Line 683: _fetch_price(symbol) hands do_fetch to _deduplicated_fetch.
fetch_price_call(t) ==
    /\ pc[t] = "idle"
    /\ Called(t)
    /\ req' = [req EXCEPT ![t] = {OneSymbol}]
    /\ pc' = [pc EXCEPT ![t] = "tier3"]
    /\ UNCHANGED <<varsR, varsF, varsC, varsW, varsM, varsA, varsL, varsT, varsS, varsG, varsO, varsD, varsE, varsH>>
    /\ UNCHANGED <<coalescerVars, cacheVars, batchVars, histVars, fetch_lock, price, ret>>

\* Line 683: what _deduplicated_fetch returned is returned.
fetch_price_return(t) ==
    /\ pc[t] = "writeback"
    /\ ret' = [ret EXCEPT ![t] = price[t]]
    /\ pc' = [pc EXCEPT ![t] = "done"]
    /\ Forget(t)
    /\ UNCHANGED <<varsR, varsF, varsC, varsW, varsM, varsA, varsL, varsT, varsS, varsG, varsO, varsD, varsE, varsH>>
    /\ UNCHANGED <<coalescerVars, cacheVars, callVars, batchVars, fetched,
                   fetch_lock, price>>

\* The callers of _fetch_price and the cleanup threads alone.
NextCoalescer ==
    \/ \E t \in Threads :
        \/ fetch_price_call(t)
        \/ deduplicated_fetch_enter(t)
        \/ deduplicated_fetch_call(t)
        \/ deduplicated_fetch_store(t)
        \/ deduplicated_fetch_finally(t)
        \/ deduplicated_fetch_wake(t)
        \/ deduplicated_fetch_timeout(t)
        \/ deduplicated_fetch_read(t)
        \/ fetch_price_return(t)
    \/ \E s \in Symbols : cleanup(s)

\* _fetch_price called by the first NumCallers threads.
NextRegistry ==
    \/ \E t \in Threads \cap Callers :
        \/ fetch_price_call(t)
        \/ deduplicated_fetch_enter(t)
        \/ deduplicated_fetch_call(t)
        \/ deduplicated_fetch_store(t)
        \/ deduplicated_fetch_finally(t)
        \/ deduplicated_fetch_wake(t)
        \/ deduplicated_fetch_timeout(t)
        \/ deduplicated_fetch_read(t)
        \/ fetch_price_return(t)
    \/ \E s \in Symbols : cleanup(s)

NextP ==
    \/ \E t \in Threads :
        \/ get_price_tier1(t)
        \/ get_price_tier2(t)
        \/ deduplicated_fetch_enter(t)
        \/ deduplicated_fetch_call(t)
        \/ deduplicated_fetch_store(t)
        \/ deduplicated_fetch_finally(t)
        \/ deduplicated_fetch_wake(t)
        \/ deduplicated_fetch_timeout(t)
        \/ deduplicated_fetch_read(t)
        \/ get_price_writeback(t)
        \/ get_prices_tier1(t)
        \/ get_prices_tier2(t)
        \/ try_yfinance_batch_acquire(t)
        \/ try_yfinance_batch_download(t)
        \/ get_prices_store(t)
    \/ \E s \in Symbols : cleanup(s)
    \/ save_to_supabase


\* ============================================================ cache tiers
\* RedisService (redis_service.py): L1 is the InMemoryCache, L2 the Redis
\* server; L3 is the Supabase 'stock' table. Time passes Step seconds at
\* a time. A cached value is the dict {"price", "timestamp", "symbol"};
\* its timestamp is kept as the age it has now.
Data(v, a) == [kind |-> "data", price |-> v, age |-> a]
\* A cache item: the value and the seconds left until it expires.
Item(d, left) == [kind |-> "item", data |-> d, left |-> left]
\* A row of the 'stock' table: price and the age of last_updated.
Row(v, a) == [kind |-> "row", price |-> v, age |-> a]
\* The ages a row is looked at with.
RowAges == {0, SUPABASE_TTL_MARKET_OPEN - 1, SUPABASE_TTL_MARKET_OPEN, 1800,
            SUPABASE_TTL_MARKET_CLOSED - 1, SUPABASE_TTL_MARKET_CLOSED,
            SUPABASE_TTL_EXTENDED}
Min(a, b) == IF a < b THEN a ELSE b

InitC ==
    /\ l1_cache = [s \in Keys |-> Absent]
    /\ l2 = [s \in Keys |-> Absent]
    /\ client = "up"
    /\ l3 = [s \in Keys |-> Absent]
    /\ supabase_client = "up"
    /\ background_refresh_queue = {}
    /\ last = [op |-> "none"]
    /\ redis_type = "upstash"
    /\ obtained = [s \in Keys |-> Absent]

\* InMemoryCache.get (lines 18-26): the item is there and not expired.
L1Hit(k) == l1_cache[k] # Absent /\ l1_cache[k].left > 0

\* client.get(key) inside RedisService.get (lines 192-198): the server
\* answers and has the key. A missing client returns before the call, a
\* raising one ends in the except branch (lines 204-206).
L2Hit(k) == client = "up" /\ l2[k] # Absent

\* RedisService.get (lines 183-206), the value returned.
RedisGet(k) ==
    IF L1Hit(k) THEN l1_cache[k].data
    ELSE IF L2Hit(k) THEN l2[k].data
    ELSE PyNone

\* RedisService.get and get_multi, the L1 item of the key afterwards: an
\* L2 hit is set in L1 with the full _l1_ttl (lines 201, 295).
L1AfterGet(k) ==
    IF L1Hit(k) THEN l1_cache[k]
    ELSE IF L2Hit(k) THEN Item(l2[k].data, l1_ttl)
    ELSE Absent

\* The tiers a RedisService.get touches.
TouchedByGet(k) ==
    IF L1Hit(k) THEN {"L1"}
    ELSE IF client = "none" THEN {"L1"} ELSE {"L1", "L2"}

\* An L1 write that takes the caller's TTL as it is.
L1AfterSetUncapped(d, ttl) == Item(d, ttl)

\* RedisService.set and set_multi (lines 208-225, 307-330): the L1 item,
\* with the TTL capped at _l1_ttl, and the L2 entry when SETEX succeeds.
L1AfterSet(d, ttl) == Item(d, Min(ttl, l1_ttl))
L2AfterSet(k, d, ttl) == IF client = "up" THEN Item(d, ttl) ELSE l2[k]

\* RedisService.set_multi (lines 315-330) calls client.pipeline_setex, a
\* method of UpstashRedisWrapper (lines 92-102) alone: the redis.Redis
\* client of _init_local_redis (lines 166-178) has none, the call raises
\* AttributeError and the except branch returns with L2 as it was.
PipelineSetexWorks == client = "up" /\ redis_type = "upstash"
L2AfterSetMulti(k, d, ttl) == IF PipelineSetexWorks THEN Item(d, ttl) ELSE l2[k]

\* Whether the L2 write of the given lookup reaches the server.
L2Written(op) == IF op = "get_prices" THEN PipelineSetexWorks ELSE client = "up"

\* The price a get_price obtained, Step seconds later: forgotten once
\* l1_ttl seconds have passed.
LaterObtained(o) ==
    IF o = Absent \/ o.age + Step >= l1_ttl THEN Absent
    ELSE [price |-> o.price, age |-> o.age + Step]

\* RedisService.delete (lines 227-240).
L2AfterDelete(k) == IF client = "up" THEN Absent ELSE l2[k]

\* _get_market_status (lines 88-106), from the UTC weekday and hour.
MarketStatus(weekday, hour) ==
    IF weekday >= 5 THEN "CLOSED"
    ELSE IF 14 <= hour /\ hour < 21 THEN "OPEN"
    ELSE IF \/ 9 <= hour /\ hour < 14
            \/ 21 <= hour /\ hour < 24
            \/ 0 <= hour /\ hour < 1 THEN "EXTENDED"
    ELSE "CLOSED"

\* The statuses the clock can give.
Statuses == {MarketStatus(w, h) : w \in 0..6, h \in 0..23}

\* _get_appropriate_supabase_ttl (lines 108-117).
AppropriateSupabaseTTL(status) ==
    IF status = "OPEN" THEN SUPABASE_TTL_MARKET_OPEN
    ELSE IF status = "EXTENDED" THEN SUPABASE_TTL_EXTENDED
    ELSE SUPABASE_TTL_MARKET_CLOSED

\* A freshness test that still accepts a row as old as the window.
IsSupabaseDataFreshInclusive(age, status) ==
    age <= AppropriateSupabaseTTL(status)

\* _is_supabase_data_fresh (lines 119-128) for a row of the given age.
IsSupabaseDataFresh(age, status) == age < AppropriateSupabaseTTL(status)

\* An L3 read that trusts the table whatever the client does.
L3HitUnguarded(k) == l3[k] # Absent

\* _get_from_supabase / _get_many_from_supabase (lines 130-204): the row
\* is returned, fresh or stale, when the client exists and answers; an
\* exception is logged and nothing is found.
L3Hit(k) == supabase_client = "up" /\ l3[k] # Absent

\* The lookups.
Lookups == {"get_price", "get_prices"}

\* The symbols the given operation served from L3.
ServedFromL3(l) ==
    IF l.op \in Lookups THEN {k \in l.keys : l.served[k] = "L3"} ELSE {}

\* TIER 1 of get_price and get_prices (lines 318-340, 410-438): Redis has
\* the value and its timestamp is younger than REDIS_TTL.
Tier1Hit(k) == RedisGet(k) # PyNone /\ RedisGet(k).age < REDIS_TTL

\* A batch that counts only when the provider had every symbol asked.
FromProviderAllOrNothing(got, api, k) ==
    IF DOMAIN got = api THEN got[k] ELSE PyNone

\* TIER 3 (lines 483-489): the entry of the symbol in the dict the
\* provider returned for the symbols api; none when it has none.
FromProvider(got, api, k) ==
    IF k \in DOMAIN got THEN got[k] ELSE PyNone

\* get_prices(symbols, use_cache) (lines 393-515) as one step, and
\* get_price (lines 305-391) as the same step for one symbol: TIER 1 from
\* Redis, TIER 2 from Supabase with the Redis write and the refresh
\* scheduling of the rows that are stale under the market status of the
\* moment, TIER 3 from the provider, which has positive prices for some
\* of the symbols asked, with the Redis write and the Supabase upsert of
\* the saving thread.
Lookup(op, S, uc) ==
    LET hit1 == IF uc THEN {k \in S : Tier1Hit(k)} ELSE {}
        hit3 == IF uc THEN {k \in S \ hit1 : L3Hit(k)} ELSE {}
        api == S \ (hit1 \cup hit3)
        fromL3 == [k \in hit3 |-> Data(l3[k].price, 0)]
        afterGet == [k \in Keys |->
                        IF uc /\ k \in S THEN L1AfterGet(k) ELSE l1_cache[k]]
    IN
    \E stale \in {{k \in hit3 : ~IsSupabaseDataFresh(l3[k].age, st)} : st \in Statuses} :
    \E G \in SUBSET api : \E got \in Dict(G) :
    LET fromApi == [k \in G |-> Data(got[k].val, 0)]
        written == Update(fromL3, fromApi)
    IN
    /\ l1_cache' = [k \in Keys |->
                      IF k \in DOMAIN written
                          THEN L1AfterSet(written[k], REDIS_TTL)
                          ELSE afterGet[k]]
    /\ l2' = [k \in Keys |->
                IF k \in DOMAIN written
                    THEN IF op = "get_prices"
                             THEN L2AfterSetMulti(k, written[k], REDIS_TTL)
                             ELSE L2AfterSet(k, written[k], REDIS_TTL)
                    ELSE l2[k]]
    /\ l3' = [k \in Keys |->
                IF k \in G /\ supabase_client = "up"
                    THEN Row(got[k].val, 0) ELSE l3[k]]
    /\ background_refresh_queue' = background_refresh_queue \cup stale
    /\ last' = [op |-> op, keys |-> S, use_cache |-> uc,
                served |-> [k \in S |->
                              IF k \in hit1
                                  THEN IF L1Hit(k) THEN "L1" ELSE "L2"
                              ELSE IF k \in hit3 THEN "L3"
                              ELSE IF k \in G THEN "provider"
                              ELSE "none"],
                touched |-> [k \in S |->
                              (IF uc THEN TouchedByGet(k) ELSE {})
                              \cup (IF uc /\ k \notin hit1 /\ supabase_client # "none"
                                       THEN {"L3"} ELSE {})
                              \cup (IF k \in api THEN {"provider"} ELSE {})],
                ret |-> [k \in S |->
                              IF k \in hit1 THEN PyFloat(RedisGet(k).price)
                              ELSE IF k \in hit3 THEN PyFloat(l3[k].price)
                              ELSE FromProvider(got, api, k)],
                after3 |-> ServedFromL3(last),
                l2_up |-> client = "up",
                l3_up |-> supabase_client = "up",
                l2_written |-> L2Written(op),
                flagged |-> stale,
                before |-> [k \in S |-> obtained[k]],
                calls |-> [hits |-> Cardinality(hit1 \cup hit3),
                           misses |-> IF op = "get_price" /\ api # {}
                                          THEN 1 ELSE 0,
                           batch |-> IF op = "get_prices" /\ api # {}
                                         THEN 1 ELSE 0]]
    /\ obtained' = [k \in Keys |->
                      IF k \notin S THEN obtained[k]
                      ELSE IF op # "get_price" THEN Absent
                      ELSE IF k \in hit1 /\ L1Hit(k) THEN obtained[k]
                      ELSE IF k \in hit1 THEN [price |-> RedisGet(k).price, age |-> 0]
                      ELSE IF k \in hit3 THEN [price |-> l3[k].price, age |-> 0]
                      ELSE IF k \in G THEN [price |-> got[k].val, age |-> 0]
                      ELSE obtained[k]]
    /\ UNCHANGED <<client, supabase_client, redis_type>>

\* get_price(symbol, use_cache) (lines 305-391).
cache_get_price(k) ==
    /\ \E uc \in BOOLEAN : Lookup("get_price", {k}, uc)
    /\ UNCHANGED <<varsP, varsR, varsF, varsW, varsM, varsA, varsL, varsT, varsS, varsG, varsO, varsD, varsE, varsH>>

\* get_prices(symbols, use_cache) (lines 393-515).
cache_get_prices(S) ==
    /\ \E uc \in BOOLEAN : Lookup("get_prices", S, uc)
    /\ UNCHANGED <<varsP, varsR, varsF, varsW, varsM, varsA, varsL, varsT, varsS, varsG, varsO, varsD, varsE, varsH>>

\* invalidate_cache(symbol) (lines 855-865): RedisService.delete of the
\* price key, from L1 and, when the server answers, from L2.
invalidate_cache(k) ==
    /\ l1_cache' = [l1_cache EXCEPT ![k] = Absent]
    /\ l2' = [l2 EXCEPT ![k] = L2AfterDelete(k)]
    /\ last' = [op |-> "invalidate_cache", keys |-> {k},
                repeated |-> last.op = "invalidate_cache" /\ last.keys = {k}]
    /\ obtained' = [obtained EXCEPT ![k] = Absent]
    /\ UNCHANGED <<client, l3, supabase_client, background_refresh_queue, redis_type>>
    /\ UNCHANGED <<varsP, varsR, varsF, varsW, varsM, varsA, varsL, varsT, varsS, varsG, varsO, varsD, varsE, varsH>>

\* An item Step seconds later: older, closer to its expiry, or gone. An
\* expired InMemoryCache item stays in the dict until it is read or
\* overwritten, and reads as missing (lines 21-25); Redis drops its own.
Later(e) ==
    IF e = Absent \/ e.left <= Step THEN Absent
    ELSE Item(Data(e.data.price, e.data.age + Step), e.left - Step)

\* Step seconds pass.
cache_tick ==
    /\ l1_cache' = [k \in Keys |-> Later(l1_cache[k])]
    /\ l2' = [k \in Keys |-> Later(l2[k])]
    /\ last' = [op |-> "tick"]
    /\ obtained' = [k \in Keys |-> LaterObtained(obtained[k])]
    /\ UNCHANGED <<client, l3, supabase_client, background_refresh_queue, redis_type>>
    /\ UNCHANGED <<varsP, varsR, varsF, varsW, varsM, varsA, varsL, varsT, varsS, varsG, varsO, varsD, varsE, varsH>>

\* A row is looked at later: last_updated is further in the past.
row_ages(k) ==
    /\ l3[k] # Absent
    /\ \E a \in RowAges :
        /\ a > l3[k].age
        /\ l3' = [l3 EXCEPT ![k] = Row(l3[k].price, a)]
    /\ last' = [op |-> "tick"]
    /\ UNCHANGED <<l1_cache, l2, client, supabase_client, background_refresh_queue,
                   redis_type, obtained>>
    /\ refreshes' = [refreshes EXCEPT ![k] = 0]
    /\ UNCHANGED <<wpc, symbols_to_refresh>>
    /\ UNCHANGED <<varsP, varsR, varsF, varsM, varsA, varsL, varsT, varsS, varsG, varsO, varsD, varsE, varsH>>

\* The Redis server stops or resumes answering: every call of the client
\* raises, or none does.
redis_health ==
    /\ client # "none"
    /\ client' \in {"up", "raising"} \ {client}
    /\ UNCHANGED <<l1_cache, l2, l3, supabase_client, background_refresh_queue, last,
                   redis_type, obtained>>
    /\ UNCHANGED <<varsP, varsR, varsF, varsW, varsM, varsA, varsL, varsT, varsS, varsG, varsO, varsD, varsE, varsH>>

\* Supabase stops or resumes answering.
supabase_health ==
    /\ supabase_client # "none"
    /\ supabase_client' \in {"up", "raising"} \ {supabase_client}
    /\ UNCHANGED <<l1_cache, l2, client, l3, background_refresh_queue, last,
                   redis_type, obtained>>
    /\ UNCHANGED <<varsP, varsR, varsF, varsW, varsM, varsA, varsL, varsT, varsS, varsG, varsO, varsD, varsE, varsH>>

\* The process is started anew (redis_service.py lines 119-181,
\* stock_price_service.py lines 37-63): L1 and the refresh queue are
\* empty, the worker thread starts with its sleep, and a backend that
\* cannot be reached or is not configured leaves its client None.
restart ==
    /\ l1_cache' = [k \in Keys |-> Absent]
    /\ background_refresh_queue' = {}
    /\ \E t \in {"none", "upstash", "local"} :
        /\ redis_type' = t
        /\ client' = IF t = "none" THEN "none" ELSE "up"
    /\ supabase_client' \in {"none", "up"}
    /\ last' = [op |-> "restart"]
    /\ obtained' = [k \in Keys |-> Absent]
    /\ wpc' = "sleep"
    /\ symbols_to_refresh' = {}
    /\ UNCHANGED <<l2, l3, refreshes>>
    /\ UNCHANGED <<varsP, varsR, varsF, varsM, varsA, varsL, varsT, varsS, varsG, varsO, varsD, varsE, varsH>>

\* The tiers are followed for the price key of one symbol; the steps
\* treat every key of a call alike.
CacheKeys == {OneSymbol}

\* ---- the 'stock' table: _save_to_supabase, _save_many_to_supabase
\* (lines 206-247) and their callers

\* A row of the table 'stock'; a column holds a number or None (null).
Num(v) == [kind |-> "number", val |-> v]
StockRow(p, c) == [kind |-> "row", price |-> p, previous_close |-> c]

\* dict.get(field): the value, or None when the dict has no such key.
DictGet(d, f) == IF f \in DOMAIN d THEN d[f] ELSE PyNone

\* The dicts that the callers pass for one symbol: {"price": price} from
\* get_price (line 387, as the arguments symbol, price), get_prices
\* (line 500) and the background refresh (lines 533, 562), and
\* {"price": ..., "previous_close": ...} from
\* get_intraday_and_previous_close (lines 784-787).
PriceOnly == {[price |-> Num(p)] : p \in Prices}
FullData ==
    {[price |-> Num(p), previous_close |-> Num(c)] : p \in Prices, c \in Prices}

\* A data_dict: some symbols, each with a dict.
DataDicts(dicts) ==
    UNION {[S -> dicts] : S \in (SUBSET BatchSymbols) \ {{}}}

MaxSaves == 1

InitH ==
    /\ stock = [s \in BatchSymbols |-> Absent]
    /\ save_threads = {}
    /\ saved = [op |-> "none"]

\* Lines 212-217 and 234-240: the record of a symbol carries the columns
\* price, previous_close and last_updated, previous_close being the
\* argument's default None or data.get('previous_close').
RecordOf(data) == StockRow(DictGet(data, "price"), DictGet(data, "previous_close"))

\* table('stock').upsert(records).execute(): every column of a record is
\* written to the row of its symbol, a None as null.
Upsert(table, data_dict) ==
    [s \in BatchSymbols |->
        IF s \in DOMAIN data_dict THEN RecordOf(data_dict[s]) ELSE table[s]]

\* Lines 384-389, 506-512, 538-539 and 568-569: a price-only write-back is
\* started after get_price, get_prices or a background refresh.
price_write_back ==
    /\ Cardinality(save_threads) < MaxSaves
    /\ \E d \in DataDicts(PriceOnly) : save_threads' = save_threads \cup {d}
    /\ UNCHANGED <<stock, saved>>
    /\ UNCHANGED <<varsP, varsR, varsF, varsC, varsW, varsM, varsA, varsL, varsT, varsS, varsG, varsO, varsD, varsE>>

\* Lines 766-802: get_intraday_and_previous_close starts the save of the
\* price and the previous close it fetched.
intraday_write_back ==
    /\ Cardinality(save_threads) < MaxSaves
    /\ \E d \in DataDicts(FullData) : save_threads' = save_threads \cup {d}
    /\ UNCHANGED <<stock, saved>>
    /\ UNCHANGED <<varsP, varsR, varsF, varsC, varsW, varsM, varsA, varsL, varsT, varsS, varsG, varsO, varsD, varsE>>

\* _save_to_supabase / _save_many_to_supabase run: nothing without a
\* client (lines 208, 226), nothing when the upsert raises (lines 221, 246).
save_many_to_supabase ==
    /\ \E d \in save_threads :
        /\ save_threads' = save_threads \ {d}
        /\ IF supabase_client = "up"
              THEN /\ stock' = Upsert(stock, d)
                   /\ saved' = [op |-> "upsert", data_dict |-> d, before |-> stock]
              ELSE /\ stock' = stock
                   /\ saved' = [op |-> "skipped"]
    /\ UNCHANGED <<varsP, varsR, varsF, varsC, varsW, varsM, varsA, varsL, varsT, varsS, varsG, varsO, varsD, varsE>>

NextH ==
    \/ price_write_back
    \/ intraday_write_back
    \/ save_many_to_supabase
    \/ supabase_health

\* ---- RedisService.get (lines 183-206) step by step, against set and
\* delete of the same key by other threads

InitE ==
    /\ gpc = [c \in Callers |-> "idle"]
    /\ gread = [c \in Callers |-> Absent]
    /\ deleted = [k \in Keys |-> FALSE]

\* RedisService.set(key, value, ttl) (lines 208-225).
redis_service_set(k) ==
    /\ \E v \in Prices :
        /\ l1_cache' = [l1_cache EXCEPT ![k] = L1AfterSet(Data(v, 0), REDIS_TTL)]
        /\ l2' = [l2 EXCEPT ![k] = L2AfterSet(k, Data(v, 0), REDIS_TTL)]
    /\ deleted' = [deleted EXCEPT ![k] = FALSE]
    /\ last' = [op |-> "set", keys |-> {k}]
    /\ UNCHANGED <<gpc, gread>>
    /\ UNCHANGED <<client, l3, supabase_client, background_refresh_queue,
                   redis_type, obtained>>
    /\ UNCHANGED <<varsP, varsR, varsF, varsW, varsM, varsA, varsL, varsT, varsS, varsG, varsO, varsD, varsH>>

\* Lines 186-198: L1 has the key and get returns; or client.get(key) is
\* called and returns the value of the server, or nothing and get returns.
redis_service_get(c, k) ==
    /\ gpc[c] = "idle"
    /\ IF ~L1Hit(k) /\ L2Hit(k)
          THEN /\ gread' = [gread EXCEPT ![c] = l2[k].data]
               /\ gpc' = [gpc EXCEPT ![c] = "populate"]
          ELSE UNCHANGED <<gpc, gread>>
    /\ last' = [op |-> "get", keys |-> {k}]
    /\ UNCHANGED <<l1_cache, l2, deleted>>
    /\ UNCHANGED <<client, l3, supabase_client, background_refresh_queue,
                   redis_type, obtained>>
    /\ UNCHANGED <<varsP, varsR, varsF, varsW, varsM, varsA, varsL, varsT, varsS, varsG, varsO, varsD, varsH>>

\* Lines 199-202: the value read is set in L1 with _l1_ttl.
L1AfterPopulate(c, k) == Item(gread[c], l1_ttl)

\* Lines 199-203: L1 is populated and the value is returned.
redis_service_get_populate(c, k) ==
    /\ gpc[c] = "populate"
    /\ l1_cache' = [l1_cache EXCEPT ![k] = L1AfterPopulate(c, k)]
    /\ gpc' = [gpc EXCEPT ![c] = "idle"]
    /\ gread' = [gread EXCEPT ![c] = Absent]
    /\ last' = [op |-> "get", keys |-> {k}]
    /\ UNCHANGED <<l2, deleted>>
    /\ UNCHANGED <<client, l3, supabase_client, background_refresh_queue,
                   redis_type, obtained>>
    /\ UNCHANGED <<varsP, varsR, varsF, varsW, varsM, varsA, varsL, varsT, varsS, varsG, varsO, varsD, varsH>>

\* RedisService.delete(key) (lines 227-240).
redis_service_delete(k) ==
    /\ l1_cache' = [l1_cache EXCEPT ![k] = Absent]
    /\ l2' = [l2 EXCEPT ![k] = L2AfterDelete(k)]
    /\ deleted' = [deleted EXCEPT ![k] = TRUE]
    /\ last' = [op |-> "delete", keys |-> {k}]
    /\ UNCHANGED <<gpc, gread>>
    /\ UNCHANGED <<client, l3, supabase_client, background_refresh_queue,
                   redis_type, obtained>>
    /\ UNCHANGED <<varsP, varsR, varsF, varsW, varsM, varsA, varsL, varsT, varsS, varsG, varsO, varsD, varsH>>

NextE ==
    \/ \E k \in BatchSymbols :
        \/ redis_service_set(k)
        \/ redis_service_delete(k)
        \/ \E c \in Callers :
            \/ redis_service_get(c, k)
            \/ redis_service_get_populate(c, k)
    \/ cache_tick

\* get_prices calls over the symbols of a batch, with invalidations in
\* between.
NextBatch ==
    \/ \E S \in SUBSET BatchSymbols \ {{}} : cache_get_prices(S)
    \/ \E k \in BatchSymbols : invalidate_cache(k)

\* get_prices calls over the symbols of a batch, in processes that find
\* one backend or another when they start.
NextBackend ==
    \/ \E S \in SUBSET BatchSymbols \ {{}} : cache_get_prices(S)
    \/ restart

NextC ==
    \/ \E k \in CacheKeys : cache_get_price(k)
    \/ \E S \in SUBSET CacheKeys \ {{}} : cache_get_prices(S)
    \/ \E k \in CacheKeys : invalidate_cache(k)
    \/ cache_tick
    \/ redis_health
    \/ supabase_health
    \/ restart


\* ====================================================== background refresh
\* The worker thread of _start_background_refresh_worker (lines 65-86)
\* and the readers of the 'stock' table that feed its queue.
InitW ==
    /\ wpc = "sleep"
    /\ symbols_to_refresh = {}
    /\ refreshes = [k \in Keys |-> 0]

\* _get_from_supabase / _get_many_from_supabase (lines 130-204), called by
\* TIER 2 of get_price, get_prices and get_intraday_and_previous_close: a
\* row that is stale under the market status of the moment is queued for
\* a refresh (lines 150-152, 196-198) and returned all the same.
get_from_supabase(k) ==
    /\ L3Hit(k)
    /\ \E st \in Statuses :
        LET fresh == IsSupabaseDataFresh(l3[k].age, st) IN
        /\ background_refresh_queue' =
              IF fresh THEN background_refresh_queue
                       ELSE background_refresh_queue \cup {k}
        /\ last' = [op |-> "get_from_supabase", keys |-> {k},
                    age |-> l3[k].age, status |-> st, stale |-> ~fresh]
    /\ UNCHANGED <<l1_cache, l2, client, l3, supabase_client, redis_type, obtained>>
    /\ UNCHANGED <<varsP, varsR, varsF, varsW, varsM, varsA, varsL, varsT, varsS, varsG, varsO, varsD, varsE, varsH>>

\* Lines 69-76: after its sleep the worker takes the queue over and
\* clears it; an empty queue sends it back to sleep.
worker_drain ==
    /\ wpc = "sleep"
    /\ background_refresh_queue # {}
    /\ \A k \in background_refresh_queue : refreshes[k] < MaxRefreshes
    /\ symbols_to_refresh' = background_refresh_queue
    /\ background_refresh_queue' = {}
    /\ wpc' = "fetch"
    /\ refreshes' = [k \in Keys |->
                       IF k \in background_refresh_queue
                           THEN refreshes[k] + 1 ELSE refreshes[k]]
    /\ UNCHANGED <<l1_cache, l2, client, l3, supabase_client, last, redis_type,
                   obtained>>
    /\ UNCHANGED <<varsP, varsR, varsF, varsM, varsA, varsL, varsT, varsS, varsG, varsO, varsD, varsE, varsH>>

\* Lines 78-80, _batch_fetch_and_store (lines 548-569): the provider is
\* asked for the symbols; the prices it has are written to Redis and
\* upserted in Supabase as rows updated now.
worker_fetch_and_store ==
    /\ wpc = "fetch"
    /\ \E G \in SUBSET symbols_to_refresh : \E got \in Dict(G) :
        /\ l1_cache' = [k \in Keys |->
                          IF k \in G THEN L1AfterSet(Data(got[k].val, 0), REDIS_TTL)
                                     ELSE l1_cache[k]]
        /\ l2' = [k \in Keys |->
                    IF k \in G THEN L2AfterSetMulti(k, Data(got[k].val, 0), REDIS_TTL)
                               ELSE l2[k]]
        /\ l3' = [k \in Keys |->
                    IF k \in G /\ supabase_client = "up"
                        THEN Row(got[k].val, 0) ELSE l3[k]]
        /\ refreshes' = [k \in Keys |->
                           IF k \in symbols_to_refresh \ G THEN 0 ELSE refreshes[k]]
        /\ obtained' = [k \in Keys |-> IF k \in G THEN Absent ELSE obtained[k]]
        /\ last' = [op |-> "refresh", keys |-> symbols_to_refresh,
                    refetched |-> G, l2_up |-> client = "up",
                    l3_up |-> supabase_client = "up"]
    /\ wpc' = "sleep"
    /\ symbols_to_refresh' = {}
    /\ UNCHANGED <<client, supabase_client, background_refresh_queue, redis_type>>
    /\ UNCHANGED <<varsP, varsR, varsF, varsM, varsA, varsL, varsT, varsS, varsG, varsO, varsD, varsE, varsH>>

\* Rows come into the table through the lookups; they age, are read and
\* are refreshed.
NextW ==
    \/ \E k \in CacheKeys : cache_get_price(k)
    \/ cache_tick
    \/ \E k \in CacheKeys : row_ages(k)
    \/ \E k \in CacheKeys : get_from_supabase(k)
    \/ worker_drain
    \/ worker_fetch_and_store

\* The same, in processes that find one Redis backend or another.
NextRevalidate == NextW \/ restart

\* ============================================================ cache warming
\* CacheWarmingService (cache_warming_service.py). Callers call
\* record_symbol_access and start_background_warming; the warming threads
\* are numbered.
Tasks == 1..MaxTasks
\* The clock of the warming service advances by WarmStep seconds.
WarmStep == 10 * Step
\* The longest time that is told apart: anything beyond the interval.
LongAgo == warm_interval + WarmStep

InitM ==
    /\ is_warming = FALSE
    /\ since_warm = LongAgo
    /\ popular_symbols = {}
    /\ symbol_access_counts = [s \in Symbols |-> 0]
    /\ mpc = [t \in Callers |-> "idle"]
    /\ mres = [t \in Callers |-> "none"]
    /\ tpc = [i \in Tasks |-> "none"]
    /\ tsymbols = [i \in Tasks |-> {}]
    /\ since_run = LongAgo

InitT == access_span = [s \in Symbols |-> 0]

\* record_symbol_access([symbol]) (lines 39-47).
record_symbol_access(s) ==
    /\ symbol_access_counts[s] < min_access_count
    /\ symbol_access_counts' = [symbol_access_counts EXCEPT ![s] = @ + 1]
    /\ popular_symbols' =
          IF symbol_access_counts[s] + 1 >= min_access_count
              THEN popular_symbols \cup {s} ELSE popular_symbols
    /\ UNCHANGED <<is_warming, since_warm, mpc, mres, tpc, tsymbols, since_run>>
    /\ UNCHANGED <<varsP, varsR, varsF, varsC, varsW, varsA, varsL, varsT, varsS, varsG, varsO, varsD, varsE, varsH>>

\* should_warm_cache (lines 54-56).
should_warm_cache == since_warm > warm_interval

\* A start test that does not look at the flag.
ShouldStartIgnoringFlag == should_warm_cache /\ popular_symbols # {}

\* Lines 60-65: the tests start_background_warming makes under the lock.
ShouldStart == ~is_warming /\ should_warm_cache /\ popular_symbols # {}

\* Lines 58-67: under self._lock, the tests and the setting of the flag;
\* the call returns at once when a test fails.
start_background_warming(t) ==
    /\ mpc[t] = "idle"
    /\ IF ShouldStart
          THEN /\ is_warming' = TRUE
               /\ mpc' = [mpc EXCEPT ![t] = "start"]
               /\ mres' = [mres EXCEPT ![t] = "started"]
          ELSE /\ mres' = [mres EXCEPT ![t] =
                            IF is_warming THEN "busy" ELSE "noop"]
               /\ UNCHANGED <<is_warming, mpc>>
    /\ UNCHANGED <<since_warm, popular_symbols, symbol_access_counts, tpc,
                   tsymbols, since_run>>
    /\ UNCHANGED <<varsP, varsR, varsF, varsC, varsW, varsA, varsL, varsT, varsS, varsG, varsO, varsD, varsE, varsH>>

\* Lines 69-73: outside the lock, the warming thread is created and
\* started.
warming_thread_start(t) ==
    /\ mpc[t] = "start"
    /\ \E i \in Tasks :
        /\ tpc[i] = "none"
        /\ tpc' = [tpc EXCEPT ![i] = "begin"]
    /\ mpc' = [mpc EXCEPT ![t] = "idle"]
    /\ UNCHANGED <<is_warming, since_warm, popular_symbols,
                   symbol_access_counts, mres, tsymbols, since_run>>
    /\ UNCHANGED <<varsP, varsR, varsF, varsC, varsW, varsA, varsL, varsT, varsS, varsG, varsO, varsD, varsE, varsH>>

\* Lines 77-81: the import, and the popular symbols read under the lock.
warm_cache_background_begin(i) ==
    /\ tpc[i] = "begin"
    /\ tsymbols' = [tsymbols EXCEPT ![i] = popular_symbols]
    /\ tpc' = [tpc EXCEPT ![i] = "warm"]
    /\ UNCHANGED <<is_warming, since_warm, popular_symbols,
                   symbol_access_counts, mpc, mres, since_run>>
    /\ UNCHANGED <<varsP, varsR, varsF, varsC, varsW, varsA, varsL, varsT, varsS, varsG, varsO, varsD, varsE, varsH>>

\* Lines 83-88: get_prices(symbols, use_cache=False) returns and
\* _last_warm_time is set to the time of the moment.
warm_cache_background_done(i) ==
    /\ tpc[i] = "warm"
    /\ Lookup("get_prices", tsymbols[i], FALSE)
    /\ since_warm' = 0
    /\ tpc' = [tpc EXCEPT ![i] = "finally"]
    /\ UNCHANGED <<is_warming, popular_symbols, symbol_access_counts, mpc,
                   mres, tsymbols, since_run>>
    /\ UNCHANGED <<varsP, varsR, varsF, varsW, varsA, varsL, varsT, varsS, varsG, varsO, varsD, varsE, varsH>>

\* An exception that ends the thread at once, with no finally block.
warm_cache_background_uncaught(i) ==
    /\ tpc[i] \in {"begin", "warm"}
    /\ tpc' = [tpc EXCEPT ![i] = "none"]
    /\ tsymbols' = [tsymbols EXCEPT ![i] = {}]
    /\ UNCHANGED <<is_warming, since_warm, popular_symbols,
                   symbol_access_counts, mpc, mres, since_run>>
    /\ UNCHANGED <<varsP, varsR, varsF, varsC, varsW, varsA, varsL, varsT, varsS, varsG, varsO, varsD, varsE, varsH>>

\* Lines 90-91: an exception of the import or of get_prices is logged.
warm_cache_background_failed(i) ==
    /\ tpc[i] \in {"begin", "warm"}
    /\ tpc' = [tpc EXCEPT ![i] = "finally"]
    /\ UNCHANGED <<is_warming, since_warm, popular_symbols,
                   symbol_access_counts, mpc, mres, tsymbols, since_run>>
    /\ UNCHANGED <<varsP, varsR, varsF, varsC, varsW, varsA, varsL, varsT, varsS, varsG, varsO, varsD, varsE, varsH>>

\* Lines 92-94: finally, under the lock, the flag is cleared; the thread
\* ends.
warm_cache_background_finally(i) ==
    /\ tpc[i] = "finally"
    /\ is_warming' = FALSE
    /\ tpc' = [tpc EXCEPT ![i] = "none"]
    /\ tsymbols' = [tsymbols EXCEPT ![i] = {}]
    /\ since_run' = 0
    /\ UNCHANGED <<since_warm, popular_symbols, symbol_access_counts, mpc, mres>>
    /\ UNCHANGED <<varsP, varsR, varsF, varsC, varsW, varsA, varsL, varsT, varsS, varsG, varsO, varsD, varsE, varsH>>

\* WarmStep seconds pass.
warm_tick ==
    /\ since_warm' = Min(since_warm + WarmStep, LongAgo)
    /\ since_run' = Min(since_run + WarmStep, LongAgo)
    /\ \/ since_warm' # since_warm
       \/ since_run' # since_run
    /\ UNCHANGED <<is_warming, popular_symbols, symbol_access_counts, mpc,
                   mres, tpc, tsymbols>>
    /\ UNCHANGED <<varsP, varsR, varsF, varsC, varsW, varsA, varsL, varsT, varsS, varsG, varsO, varsD, varsE, varsH>>

\* WarmStep seconds pass between the accesses of the symbols.
access_tick ==
    /\ access_span' = [s \in Symbols |->
                          IF symbol_access_counts[s] = 0 \/ s \in popular_symbols
                              THEN access_span[s]
                              ELSE Min(access_span[s] + WarmStep, LongAgo)]
    /\ access_span' # access_span
    /\ since_warm' = Min(since_warm + WarmStep, LongAgo)
    /\ since_run' = Min(since_run + WarmStep, LongAgo)
    /\ UNCHANGED <<is_warming, popular_symbols, symbol_access_counts, mpc,
                   mres, tpc, tsymbols>>
    /\ UNCHANGED <<varsP, varsR, varsF, varsC, varsW, varsA, varsL, varsS, varsG, varsO, varsD, varsE, varsH>>

NextM ==
    \/ \E s \in Symbols : record_symbol_access(s)
    \/ \E t \in Callers : start_background_warming(t)
    \/ \E t \in Callers : warming_thread_start(t)
    \/ \E i \in Tasks :
        \/ warm_cache_background_begin(i)
        \/ warm_cache_background_done(i)
        \/ warm_cache_background_failed(i)
        \/ warm_cache_background_finally(i)
    \/ warm_tick

\* The warming runs that follow one another with no time between them: a
\* run is started again only while none has succeeded.
NextFlag ==
    \/ \E s \in Symbols : record_symbol_access(s)
    \/ \E t \in Callers : start_background_warming(t)
    \/ \E t \in Callers : warming_thread_start(t)
    \/ \E i \in Tasks :
        \/ warm_cache_background_begin(i)
        \/ warm_cache_background_done(i)
        \/ warm_cache_background_failed(i)
        \/ warm_cache_background_finally(i)

\* The accesses of the symbols over time, with the warming they lead to.
NextT ==
    \/ NextM
    \/ access_tick

\* ============================================================ API metrics
\* APIMetricsService (api_metrics_service.py). A latency is a whole number
\* of milliseconds; the average is kept as the sum and the count it is the
\* quotient of.
Services == {"stock_price", "stock_price_batch"}
Latencies == 1..MaxLatency

\* APICallMetrics() (lines 12-21), without last_call_time.
NewMetrics ==
    [total_calls |-> 0, successful_calls |-> 0, failed_calls |-> 0,
     cache_hits |-> 0, cache_misses |-> 0, rate_limit_hits |-> 0,
     avg_response_time_ms |-> [sum |-> 0, len |-> 1]]

InitA ==
    /\ metrics = [s \in Services |-> NewMetrics]
    /\ response_times = [s \in Services |-> <<>>]
    /\ recorded = [s \in Services |-> <<>>]

RECURSIVE Sum(_)
Sum(q) == IF q = <<>> THEN 0 ELSE Head(q) + Sum(Tail(q))

\* A window that drops the latency just added.
WindowDropNewest(times, ms) ==
    IF Len(times) + 1 > max_response_times THEN times ELSE Append(times, ms)

\* Lines 83-86: the latency is appended and, the list being longer than
\* _max_response_times, the first one is popped.
Window(times, ms) ==
    IF Len(times) + 1 > max_response_times
        THEN Tail(Append(times, ms)) ELSE Append(times, ms)

\* Metrics that leave a rate-limited failure out of failed_calls.
RecordedUnlessLimited(m, times, success, cached, rate_limited) ==
    [total_calls |-> m.total_calls + 1,
     successful_calls |-> m.successful_calls + (IF success THEN 1 ELSE 0),
     failed_calls |-> m.failed_calls + (IF success \/ rate_limited THEN 0 ELSE 1),
     cache_hits |-> m.cache_hits + (IF cached THEN 1 ELSE 0),
     cache_misses |-> m.cache_misses + (IF cached THEN 0 ELSE 1),
     rate_limit_hits |-> m.rate_limit_hits + (IF rate_limited THEN 1 ELSE 0),
     avg_response_time_ms |-> [sum |-> Sum(times), len |-> Len(times)]]

\* Lines 65-88: the metrics of the service after the call.
Recorded(m, times, success, cached, rate_limited) ==
    [total_calls |-> m.total_calls + 1,
     successful_calls |-> m.successful_calls + (IF success THEN 1 ELSE 0),
     failed_calls |-> m.failed_calls + (IF success THEN 0 ELSE 1),
     cache_hits |-> m.cache_hits + (IF cached THEN 1 ELSE 0),
     cache_misses |-> m.cache_misses + (IF cached THEN 0 ELSE 1),
     rate_limit_hits |-> m.rate_limit_hits + (IF rate_limited THEN 1 ELSE 0),
     avg_response_time_ms |-> [sum |-> Sum(times), len |-> Len(times)]]

\* A service is followed from its first call on: a leading run of Run
\* equal calls, one short of filling the window, and MaxCalls calls of any
\* kind after it.
Run == max_response_times - 1

\* record_api_call(service_name, success, response_time_ms, cached,
\* rate_limited) (lines 56-88).
record_api_call(s, success, ms, cached, rate_limited) ==
    LET times == Window(response_times[s], ms) IN
    /\ Len(recorded[s]) < Run + MaxCalls
    /\ \A o \in Services \ {s} : Len(recorded[o]) <= 1
    /\ Len(recorded[s]) < Run =>
          /\ success /\ ~cached /\ ~rate_limited
          /\ recorded[s] # <<>> => ms = recorded[s][1]
    /\ response_times' = [response_times EXCEPT ![s] = times]
    /\ metrics' = [metrics EXCEPT
                     ![s] = Recorded(@, times, success, cached, rate_limited)]
    /\ recorded' = [recorded EXCEPT ![s] = Append(@, ms)]
    /\ UNCHANGED <<varsP, varsR, varsF, varsC, varsW, varsM, varsL, varsT, varsS, varsG, varsO, varsD, varsE, varsH>>

\* The flags the callers of record_api_call pass (stock_price_service.py,
\* lines 285-850): a provider call that gave data or none, a cache hit, and
\* a rate-limit error of the provider.
CallKinds ==
    {[success |-> TRUE, cached |-> FALSE, rate_limited |-> FALSE],
     [success |-> FALSE, cached |-> FALSE, rate_limited |-> FALSE],
     [success |-> TRUE, cached |-> TRUE, rate_limited |-> FALSE],
     [success |-> FALSE, cached |-> FALSE, rate_limited |-> TRUE]}

NextA ==
    \E s \in Services : \E k \in CallKinds : \E ms \in Latencies :
        record_api_call(s, k.success, ms, k.cached, k.rate_limited)

\* record_api_call with every combination of its three flags; the counters
\* do not depend on the latency.
NextCounters ==
    \E s \in Services : \E success, cached, rate_limited \in BOOLEAN :
        record_api_call(s, success, MaxLatency, cached, rate_limited)

\* The counters of APICallMetrics (lines 14-21).
Counters == {"total_calls", "successful_calls", "failed_calls", "cache_hits",
             "cache_misses", "rate_limit_hits"}

\* ---- the request registry (lines 156-199), followed for one request_key

\* RequestDeduplicationEntry (lines 24-30) of a request not completed: the
\* threads whose Event is in waiters, and the age of created_at.
Request(w, a) == [kind |-> "request", waiters |-> w, age |-> a]

\* The ages an entry is looked at with.
RequestAges == {0, request_timeout, request_timeout + 1}

InitD ==
    /\ pending_requests = Absent
    /\ dpc = [t \in Threads |-> "idle"]

\* _cleanup_stale_requests (lines 189-199): an entry created more than
\* _request_timeout seconds ago is deleted, completed or not.
AfterCleanup(e) ==
    IF e # Absent /\ e.age > request_timeout THEN Absent ELSE e

\* acquire_request_lock(request_key) (lines 156-170): after the cleanup a
\* key that is present makes the caller a waiter, an absent one is
\* inserted and the caller is granted leadership.
acquire_request_lock(t) ==
    /\ dpc[t] = "idle"
    /\ LET e == AfterCleanup(pending_requests) IN
        IF e # Absent
          THEN /\ pending_requests' = Request(e.waiters \cup {t}, e.age)
               /\ dpc' = [dpc EXCEPT ![t] = "follower"]
          ELSE /\ pending_requests' = Request({}, 0)
               /\ dpc' = [dpc EXCEPT ![t] = "leader"]
    /\ UNCHANGED <<varsP, varsR, varsF, varsC, varsW, varsM, varsA, varsL, varsT, varsS, varsG, varsO, varsE, varsH>>

\* complete_request(request_key, result) (lines 172-183): the entry found
\* under the key is completed, its waiters are set and it is deleted.
complete_request(t) ==
    /\ dpc[t] = "leader"
    /\ pending_requests' = Absent
    /\ dpc' = [dpc EXCEPT ![t] = "idle"]
    /\ UNCHANGED <<varsP, varsR, varsF, varsC, varsW, varsM, varsA, varsL, varsT, varsS, varsG, varsO, varsE, varsH>>

\* wait_for_request (lines 185-187): the Event is set, the entry it was
\* appended to being gone, or the timeout of 30 s is over; None is
\* returned.
wait_for_request(t) ==
    /\ dpc[t] = "follower"
    /\ IF pending_requests = Absent THEN TRUE
       ELSE \/ t \notin pending_requests.waiters
            \/ pending_requests.age >= 30
    /\ dpc' = [dpc EXCEPT ![t] = "idle"]
    /\ UNCHANGED pending_requests
    /\ UNCHANGED <<varsP, varsR, varsF, varsC, varsW, varsM, varsA, varsL, varsT, varsS, varsG, varsO, varsE, varsH>>

\* Time passes: created_at is further in the past.
request_ages ==
    /\ pending_requests # Absent
    /\ \E a \in RequestAges :
        /\ a > pending_requests.age
        /\ pending_requests' = Request(pending_requests.waiters, a)
    /\ UNCHANGED dpc
    /\ UNCHANGED <<varsP, varsR, varsF, varsC, varsW, varsM, varsA, varsL, varsT, varsS, varsG, varsO, varsE, varsH>>

NextD ==
    \/ \E t \in Threads :
        \/ acquire_request_lock(t)
        \/ complete_request(t)
        \/ wait_for_request(t)
    \/ request_ages

\* ============================================================ SEC indexes
\* ManagerLookupService._load_lookup_data and
\* TickerResolutionService._load_indexes (thirteen_f_filings_service.py,
\* lines 231-253 and 328-354): each class keeps its index in a class
\* attribute behind its own _load_lock.
Loaders == {"ManagerLookupService", "TickerResolutionService"}
\* The dict built from the response (lines 244-250, 342-353).
LoadedIndex == [kind |-> "index"]

InitL ==
    /\ index = [L \in Loaders |-> PyNone]
    /\ load_lock = [L \in Loaders |-> 0]
    /\ lpc = [t \in Threads |-> "idle"]
    /\ loader = [t \in Threads |-> "ManagerLookupService"]
    /\ lret = [t \in Threads |-> "none"]
    /\ downloads = [L \in Loaders |-> 0]
    /\ failures = [L \in Loaders |-> 0]

\* A thread calls one of the loaders.
load_call(t, L) ==
    /\ lpc[t] = "idle"
    /\ lpc' = [lpc EXCEPT ![t] = "check"]
    /\ loader' = [loader EXCEPT ![t] = L]
    /\ lret' = [lret EXCEPT ![t] = "none"]
    /\ UNCHANGED <<index, load_lock, downloads, failures>>
    /\ UNCHANGED <<varsP, varsR, varsF, varsC, varsW, varsM, varsA, varsT, varsS, varsG, varsO, varsD, varsE, varsH>>

\* Lines 234-235, 331-332: the test made without the lock.
load_check(t) ==
    /\ lpc[t] = "check"
    /\ IF index[loader[t]] # PyNone
          THEN /\ lpc' = [lpc EXCEPT ![t] = "idle"]
               /\ lret' = [lret EXCEPT ![t] = "cached"]
          ELSE /\ lpc' = [lpc EXCEPT ![t] = "acquire"]
               /\ UNCHANGED lret
    /\ UNCHANGED <<index, load_lock, loader, downloads, failures>>
    /\ UNCHANGED <<varsP, varsR, varsF, varsC, varsW, varsM, varsA, varsT, varsS, varsG, varsO, varsD, varsE, varsH>>

\* A second test that finds nothing whatever the attribute holds.
LoadedUnderLockNever(L) == FALSE

\* Lines 238, 335: the test repeated under the lock.
LoadedUnderLock(L) == index[L] # PyNone

\* Lines 237-239, 334-336: the lock is taken and the test repeated.
load_acquire(t) ==
    /\ lpc[t] = "acquire"
    /\ load_lock[loader[t]] = 0
    /\ IF LoadedUnderLock(loader[t])
          THEN /\ lpc' = [lpc EXCEPT ![t] = "idle"]
               /\ lret' = [lret EXCEPT ![t] = "cached"]
               /\ UNCHANGED load_lock
          ELSE /\ lpc' = [lpc EXCEPT ![t] = "download"]
               /\ load_lock' = [load_lock EXCEPT ![loader[t]] = t]
               /\ UNCHANGED lret
    /\ UNCHANGED <<index, loader, downloads, failures>>
    /\ UNCHANGED <<varsP, varsR, varsF, varsC, varsW, varsM, varsA, varsT, varsS, varsG, varsO, varsD, varsE, varsH>>

\* Lines 242-253, 339-354: sec_get returns, the index is built and
\* assigned, the lock is released and the call returns.
load_download(t) ==
    /\ lpc[t] = "download"
    /\ index' = [index EXCEPT ![loader[t]] = LoadedIndex]
    /\ downloads' = [downloads EXCEPT ![loader[t]] = @ + 1]
    /\ load_lock' = [load_lock EXCEPT ![loader[t]] = 0]
    /\ lpc' = [lpc EXCEPT ![t] = "idle"]
    /\ lret' = [lret EXCEPT ![t] = "loaded"]
    /\ UNCHANGED <<loader, failures>>
    /\ UNCHANGED <<varsP, varsR, varsF, varsC, varsW, varsM, varsA, varsT, varsS, varsG, varsO, varsD, varsE, varsH>>

\* Lines 242, 339-340: sec_get (or the parsing of its response) raises:
\* the `with` block releases the lock and the exception leaves the
\* loader before the assignment.
load_raise(t) ==
    /\ lpc[t] = "download"
    /\ failures[loader[t]] < MaxFailures
    /\ downloads' = [downloads EXCEPT ![loader[t]] = @ + 1]
    /\ failures' = [failures EXCEPT ![loader[t]] = @ + 1]
    /\ load_lock' = [load_lock EXCEPT ![loader[t]] = 0]
    /\ lpc' = [lpc EXCEPT ![t] = "idle"]
    /\ lret' = [lret EXCEPT ![t] = "raised"]
    /\ UNCHANGED <<index, loader>>
    /\ UNCHANGED <<varsP, varsR, varsF, varsC, varsW, varsM, varsA, varsT, varsS, varsG, varsO, varsD, varsE, varsH>>

NextL ==
    \E t \in Threads :
        \/ \E L \in Loaders : load_call(t, L)
        \/ load_check(t)
        \/ load_acquire(t)
        \/ load_download(t)
        \/ load_raise(t)

\* ============================================================ SEC limiter
\* thirteen_f_filings_service.py, lines 57-92. Time advances in ticks,
\* TicksPerSecond of them to a unix second. A counter key is used during
\* its own second and, by a caller that read the clock just before the
\* second ended, during the next one; its 2 s expiry (line 69) removes it
\* after that, when no caller can name it any more.

InitR ==
    /\ phase = 0
    /\ sec_rate = <<0, 0>>
    /\ rpc = [c \in Callers |-> "idle"]
    /\ keyAge = [c \in Callers |-> 1]
    /\ sleepLeft = [c \in Callers |-> 0]
    /\ released = [i \in 1..TicksPerSecond |-> 0]

\* Line 86-89: a call of sec_get with Redis configured.
sec_get(c) ==
    /\ rpc[c] = "idle"
    /\ rpc' = [rpc EXCEPT ![c] = "now"]
    /\ UNCHANGED <<phase, sec_rate, keyAge, sleepLeft, released>>
    /\ UNCHANGED <<varsP, varsF, varsC, varsW, varsM, varsA, varsL, varsT, varsS, varsG, varsO, varsD, varsE, varsH>>

\* Lines 65-66: now_sec = int(time.time()); key = f"sec_rate:{now_sec}".
rate_limit_redis_now(c) ==
    /\ rpc[c] = "now"
    /\ keyAge' = [keyAge EXCEPT ![c] = 1]
    /\ rpc' = [rpc EXCEPT ![c] = "incr"]
    /\ UNCHANGED <<phase, sec_rate, sleepLeft, released>>
    /\ UNCHANGED <<varsP, varsF, varsC, varsW, varsM, varsA, varsL, varsT, varsS, varsG, varsO, varsD, varsE, varsH>>

\* A test that lets one more caller through.
PermittedOneMore(count) == count <= SEC_REQ_PER_SECOND + 1

\* Line 70: the caller proceeds when its count is within the quota.
Permitted(count) == count <= SEC_REQ_PER_SECOND

\* Lines 67-73: INCR of the key; return when permitted, else sleep 1 s.
rate_limit_redis_incr(c) ==
    /\ rpc[c] = "incr"
    /\ LET count == sec_rate[keyAge[c]] + 1 IN
        /\ sec_rate' = [sec_rate EXCEPT ![keyAge[c]] = count]
        /\ IF Permitted(count)
              THEN /\ rpc' = [rpc EXCEPT ![c] = "released"]
                   /\ released' = IF windowed
                                      THEN [released EXCEPT ![1] = @ + 1]
                                      ELSE released
                   /\ granted' = [granted EXCEPT ![keyAge[c]] = @ + 1]
                   /\ UNCHANGED <<sleepLeft, refused>>
              ELSE /\ rpc' = [rpc EXCEPT ![c] = "sleep"]
                   /\ sleepLeft' = [sleepLeft EXCEPT ![c] = TicksPerSecond]
                   /\ refused' = [refused EXCEPT ![c] = keyAge[c]]
                   /\ UNCHANGED <<released, granted>>
    /\ keyAge' = [keyAge EXCEPT ![c] = 1]
    /\ UNCHANGED <<phase, windowed>>
    /\ UNCHANGED <<varsP, varsF, varsC, varsW, varsM, varsA, varsL, varsT, varsS, varsO, varsD, varsE, varsH>>

\* Lines 73, 64: time.sleep(1.0) is over; the loop starts again.
rate_limit_redis_wake(c) ==
    /\ rpc[c] = "sleep"
    /\ sleepLeft[c] = 0
    /\ rpc' = [rpc EXCEPT ![c] = "now"]
    /\ refused' = [refused EXCEPT ![c] = 0]
    /\ UNCHANGED <<phase, sec_rate, keyAge, sleepLeft, released, granted, windowed>>
    /\ UNCHANGED <<varsP, varsF, varsC, varsW, varsM, varsA, varsL, varsT, varsS, varsO, varsD, varsE, varsH>>

InitS == attempts = [c \in Callers |-> 0]

InitG ==
    /\ windowed = TRUE
    /\ granted = <<0, 0>>
    /\ refused = [c \in Callers |-> 0]

\* The same start without the record of the releases of each tick.
InitQ ==
    /\ windowed = FALSE
    /\ granted = <<0, 0>>
    /\ refused = [c \in Callers |-> 0]

\* stop_after_attempt(3) (line 99).
stop_after_attempt == 3

\* Lines 92, 103-107: the request is made; it succeeds, or it fails and
\* is not tried again, and sec_get returns or raises.
sec_get_return(c) ==
    /\ rpc[c] = "released"
    /\ rpc' = [rpc EXCEPT ![c] = "idle"]
    /\ attempts' = [attempts EXCEPT ![c] = 0]
    /\ UNCHANGED <<phase, sec_rate, keyAge, sleepLeft, released>>
    /\ UNCHANGED <<varsP, varsF, varsC, varsW, varsM, varsA, varsL, varsT, varsG, varsO, varsD, varsE, varsH>>

\* Lines 95-107: the request is made and fails with a ConnectionError, a
\* Timeout or an HTTPError before the last attempt: the decorator waits,
\* one second at least (wait_exponential, min=1) ...
sec_get_with_retry_fail(c) ==
    /\ rpc[c] = "released"
    /\ attempts[c] + 1 < stop_after_attempt
    /\ attempts' = [attempts EXCEPT ![c] = @ + 1]
    /\ rpc' = [rpc EXCEPT ![c] = "backoff"]
    /\ sleepLeft' = [sleepLeft EXCEPT ![c] = TicksPerSecond]
    /\ UNCHANGED <<phase, sec_rate, keyAge, released>>
    /\ UNCHANGED <<varsP, varsF, varsC, varsW, varsM, varsA, varsL, varsT, varsG, varsO, varsD, varsE, varsH>>

\* ... and calls _sec_get_with_retry's body again.
sec_get_with_retry_again(c) ==
    /\ rpc[c] = "backoff"
    /\ sleepLeft[c] = 0
    /\ rpc' = [rpc EXCEPT ![c] = "released"]
    /\ UNCHANGED <<phase, sec_rate, keyAge, sleepLeft, released>>
    /\ UNCHANGED <<varsP, varsF, varsC, varsW, varsM, varsA, varsL, varsT, varsS, varsG, varsO, varsD, varsE, varsH>>

\* The clock advances by one tick; at the end of a second the counter of
\* the new second does not exist yet (INCR creates it at 1).
tick ==
    LET rollover == phase = TicksPerSecond - 1 IN
    /\ rollover => \A c \in Callers : ~(rpc[c] = "incr" /\ keyAge[c] = 2)
    /\ phase' = (phase + 1) % TicksPerSecond
    /\ released' = IF windowed
                       THEN [i \in 1..TicksPerSecond |->
                                IF i = 1 THEN 0 ELSE released[i - 1]]
                       ELSE released
    /\ sleepLeft' = [c \in Callers |-> IF sleepLeft[c] > 0 THEN sleepLeft[c] - 1 ELSE 0]
    /\ sec_rate' = IF rollover THEN <<0, sec_rate[1]>> ELSE sec_rate
    /\ keyAge' = [c \in Callers |->
                    IF rollover /\ rpc[c] = "incr" THEN 2 ELSE keyAge[c]]
    /\ granted' = IF rollover THEN <<0, granted[1]>> ELSE granted
    /\ refused' = [c \in Callers |->
                     IF rollover /\ refused[c] > 0
                         THEN 2 ELSE refused[c]]
    /\ UNCHANGED <<rpc, windowed>>
    /\ UNCHANGED <<varsP, varsF, varsC, varsW, varsM, varsA, varsL, varsT, varsS, varsO, varsD, varsE, varsH>>

\* The steps of _rate_limit_redis a running caller takes by itself.
rate_limit_redis(c) ==
    \/ rate_limit_redis_now(c)
    \/ rate_limit_redis_incr(c)
    \/ rate_limit_redis_wake(c)

NextR ==
    \/ \E c \in Callers :
        \/ sec_get(c)
        \/ rate_limit_redis_now(c)
        \/ rate_limit_redis_incr(c)
        \/ rate_limit_redis_wake(c)
        \/ sec_get_return(c)
    \/ tick

\* ---- _rate_limit_local (lines 76-83), the fallback without Redis

\* _local_last_request_time is 0.0 (line 59) and the monotonic clock is
\* past its first second.
InitO ==
    /\ local_rate_lock = 0
    /\ qpc = [c \in Callers |-> "idle"]
    /\ since_request = TicksPerSecond
    /\ local_sleep = 0
    /\ local_gap = TicksPerSecond
    /\ local_released = 0

\* Lines 88, 90-91: a call of sec_get with _redis None.
sec_get_local(c) ==
    /\ qpc[c] = "idle"
    /\ qpc' = [qpc EXCEPT ![c] = "lock"]
    /\ UNCHANGED <<local_rate_lock, since_request, local_sleep, local_gap,
                   local_released>>
    /\ UNCHANGED <<varsP, varsR, varsF, varsC, varsW, varsM, varsA, varsL, varsT, varsS, varsG, varsD, varsE, varsH>>

\* Line 79: `with _local_rate_lock`.
rate_limit_local_acquire(c) ==
    /\ qpc[c] = "lock"
    /\ local_rate_lock = 0
    /\ local_rate_lock' = c
    /\ qpc' = [qpc EXCEPT ![c] = "elapsed"]
    /\ UNCHANGED <<since_request, local_sleep, local_gap, local_released>>
    /\ UNCHANGED <<varsP, varsR, varsF, varsC, varsW, varsM, varsA, varsL, varsT, varsS, varsG, varsD, varsE, varsH>>

\* A wait that ends one tick early.
SleepNeededShort(elapsed) ==
    IF elapsed < TicksPerSecond THEN TicksPerSecond - elapsed - 1 ELSE 0

\* Lines 81-82: the argument of time.sleep, none when a second has passed.
SleepNeeded(elapsed) ==
    IF elapsed < TicksPerSecond THEN TicksPerSecond - elapsed ELSE 0

\* Lines 80-82: elapsed is computed and time.sleep is called.
rate_limit_local_elapsed(c) ==
    /\ qpc[c] = "elapsed"
    /\ local_sleep' = SleepNeeded(since_request)
    /\ qpc' = [qpc EXCEPT ![c] = "sleep"]
    /\ UNCHANGED <<local_rate_lock, since_request, local_gap, local_released>>
    /\ UNCHANGED <<varsP, varsR, varsF, varsC, varsW, varsM, varsA, varsL, varsT, varsS, varsG, varsD, varsE, varsH>>

\* Line 83: time.sleep has lasted its argument at least;
\* _local_last_request_time is set to the clock, the lock is released and
\* _rate_limit_local returns.
rate_limit_local_stamp(c) ==
    /\ qpc[c] = "sleep"
    /\ local_sleep = 0
    /\ local_gap' = since_request
    /\ since_request' = 0
    /\ local_released' = Min(local_released + 1, 2)
    /\ local_rate_lock' = 0
    /\ qpc' = [qpc EXCEPT ![c] = "released"]
    /\ UNCHANGED local_sleep
    /\ UNCHANGED <<varsP, varsR, varsF, varsC, varsW, varsM, varsA, varsL, varsT, varsS, varsG, varsD, varsE, varsH>>

\* Line 92: the request is made and sec_get returns or raises.
sec_get_local_return(c) ==
    /\ qpc[c] = "released"
    /\ qpc' = [qpc EXCEPT ![c] = "idle"]
    /\ UNCHANGED <<local_rate_lock, since_request, local_sleep, local_gap,
                   local_released>>
    /\ UNCHANGED <<varsP, varsR, varsF, varsC, varsW, varsM, varsA, varsL, varsT, varsS, varsG, varsD, varsE, varsH>>

\* The monotonic clock advances by one tick.
local_tick ==
    /\ since_request' = Min(since_request + 1, TicksPerSecond)
    /\ local_sleep' = IF local_sleep > 0 THEN local_sleep - 1 ELSE 0
    /\ UNCHANGED <<local_rate_lock, qpc, local_gap, local_released>>
    /\ UNCHANGED <<varsP, varsR, varsF, varsC, varsW, varsM, varsA, varsL, varsT, varsS, varsG, varsD, varsE, varsH>>

NextO ==
    \/ \E c \in Callers :
        \/ sec_get_local(c)
        \/ rate_limit_local_acquire(c)
        \/ rate_limit_local_elapsed(c)
        \/ rate_limit_local_stamp(c)
        \/ sec_get_local_return(c)
    \/ local_tick

\* The limiter with requests that fail and are retried.
NextS ==
    \/ NextR
    \/ \E c \in Callers :
        \/ sec_get_with_retry_fail(c)
        \/ sec_get_with_retry_again(c)

\* ================================================= provider retry loops
\* do_fetch (lines 655-681), _try_yfinance_batch (lines 594-651) and
\* _fetch_intraday_batch (lines 806-853), one call at a time. The primary
\* provider answers each call with data, with nothing usable, with a
\* rate-limit error (429) or with another error.
InitF ==
    /\ fop = "none"
    /\ fattempt = 0
    /\ fleft = 0
    /\ fcalls = 0
    /\ flimited = 0
    /\ fresult = Absent
    /\ fdata = <<>>
    /\ ffail = "none"
    /\ secondary = PyNone

\* A fetch starts; the intraday one for 1..MaxIntraday symbols.
fetch_start ==
    /\ fop = "none"
    /\ \/ fop' \in {"single", "batch"} /\ fleft' = 0
       \/ fop' = "intraday_next" /\ fleft' \in 1..MaxIntraday
    /\ secondary' \in Floats
    /\ fattempt' = 0
    /\ fcalls' = 0
    /\ flimited' = 0
    /\ fresult' = Absent
    /\ fdata' = <<>>
    /\ ffail' = "none"
    /\ UNCHANGED <<varsP, varsR, varsC, varsW, varsM, varsA, varsL, varsT, varsS, varsG, varsO, varsD, varsE, varsH>>

\* Exceptions whose text has neither '429', 'Too Many Requests' nor
\* 'rate' (lines 632, 671): timeouts and connection errors, and permanent
\* failures such as an unknown symbol.
OtherErrors == {"transient", "permanent"}

\* The loop body is entered and the provider is called once more.
Attempting(op) ==
    /\ fop = op
    /\ fresult = Absent
    /\ InRange(fattempt)
    /\ fcalls' = fcalls + 1

\* Lines 658-667: ticker.info has a price; do_fetch returns it.
do_fetch_price ==
    /\ Attempting("single")
    /\ \E v \in Prices : fresult' = PyFloat(v)
    /\ UNCHANGED <<fop, fattempt, fleft, flimited, fdata, secondary>>
    /\ ffail' = "data"
    /\ UNCHANGED <<varsP, varsR, varsC, varsW, varsM, varsA, varsL, varsT, varsS, varsG, varsO, varsD, varsE, varsH>>

\* Lines 660-666: no price in ticker.info; the next iteration follows
\* at once.
do_fetch_empty ==
    /\ Attempting("single")
    /\ fattempt' = fattempt + 1
    /\ UNCHANGED <<fop, fleft, flimited, fresult, fdata, secondary>>
    /\ ffail' = "empty"
    /\ UNCHANGED <<varsP, varsR, varsC, varsW, varsM, varsA, varsL, varsT, varsS, varsG, varsO, varsD, varsE, varsH>>

\* Lines 669-676: a rate-limit error; backoff and `continue` before the
\* last attempt, the end of the iteration on the last one.
do_fetch_limited ==
    /\ Attempting("single")
    /\ fattempt' = fattempt + 1
    /\ flimited' = flimited + 1
    /\ UNCHANGED <<fop, fleft, fresult, fdata, secondary>>
    /\ ffail' = "limited"
    /\ UNCHANGED <<varsP, varsR, varsC, varsW, varsM, varsA, varsL, varsT, varsS, varsG, varsO, varsD, varsE, varsH>>

\* Lines 677-681: any other error breaks the loop; None is returned.
do_fetch_error ==
    /\ Attempting("single")
    /\ fresult' = PyNone
    /\ UNCHANGED <<fop, fattempt, fleft, flimited, fdata, secondary>>
    /\ ffail' \in OtherErrors
    /\ UNCHANGED <<varsP, varsR, varsC, varsW, varsM, varsA, varsL, varsT, varsS, varsG, varsO, varsD, varsE, varsH>>

\* Lines 656, 681: the range is exhausted; None is returned.
do_fetch_exhausted ==
    /\ fop = "single"
    /\ fresult = Absent
    /\ ~InRange(fattempt)
    /\ fresult' = PyNone
    /\ UNCHANGED <<fop, fattempt, fleft, fcalls, flimited, fdata, secondary>>
    /\ UNCHANGED ffail
    /\ UNCHANGED <<varsP, varsR, varsC, varsW, varsM, varsA, varsL, varsT, varsS, varsG, varsO, varsD, varsE, varsH>>

\* Lines 599-637: yf.download gave closes; the dict is returned.
yfinance_batch_data ==
    /\ Attempting("batch")
    /\ \E d \in Dict({OneSymbol}) : fresult' = PyDict(d)
    /\ UNCHANGED <<fop, fattempt, fleft, flimited, fdata, secondary>>
    /\ ffail' = "data"
    /\ UNCHANGED <<varsP, varsR, varsC, varsW, varsM, varsA, varsL, varsT, varsS, varsG, varsO, varsD, varsE, varsH>>

\* Lines 606, 636-641: an empty frame, or no usable close: next attempt.
yfinance_batch_empty ==
    /\ Attempting("batch")
    /\ fattempt' = fattempt + 1
    /\ UNCHANGED <<fop, fleft, flimited, fresult, fdata, secondary>>
    /\ ffail' = "empty"
    /\ UNCHANGED <<varsP, varsR, varsC, varsW, varsM, varsA, varsL, varsT, varsS, varsG, varsO, varsD, varsE, varsH>>

\* Lines 630-646: a rate-limit exception is recorded; backoff before the
\* last attempt, then the next iteration.
yfinance_batch_limited ==
    /\ Attempting("batch")
    /\ fattempt' = fattempt + 1
    /\ flimited' = flimited + 1
    /\ UNCHANGED <<fop, fleft, fresult, fdata, secondary>>
    /\ ffail' = "limited"
    /\ UNCHANGED <<varsP, varsR, varsC, varsW, varsM, varsA, varsL, varsT, varsS, varsG, varsO, varsD, varsE, varsH>>

\* Lines 630, 640-646: an exception that is no rate limit is logged;
\* backoff before the last attempt, then the next iteration.
yfinance_batch_error ==
    /\ Attempting("batch")
    /\ fattempt' = fattempt + 1
    /\ ffail' \in OtherErrors
    /\ UNCHANGED <<fop, fleft, flimited, fresult, fdata, secondary>>
    /\ UNCHANGED <<varsP, varsR, varsC, varsW, varsM, varsA, varsL, varsT, varsS, varsG, varsO, varsD, varsE, varsH>>

\* Lines 598, 651: the range is exhausted; {} is returned.
yfinance_batch_exhausted ==
    /\ fop = "batch"
    /\ fresult = Absent
    /\ ~InRange(fattempt)
    /\ fresult' = PyDict(<<>>)
    /\ UNCHANGED <<fop, fattempt, fleft, fcalls, flimited, fdata, secondary>>
    /\ UNCHANGED ffail
    /\ UNCHANGED <<varsP, varsR, varsC, varsW, varsM, varsA, varsL, varsT, varsS, varsG, varsO, varsD, varsE, varsH>>

\* Lines 811-813: the next symbol of the list (the symbols are numbered
\* from the last one down), with a retry loop of its own.
intraday_symbol ==
    /\ fop = "intraday_next"
    /\ fleft > 0
    /\ fop' = "intraday"
    /\ fleft' = fleft - 1
    /\ fattempt' = 0
    /\ fcalls' = 0
    /\ flimited' = 0
    /\ UNCHANGED <<fresult, fdata, secondary>>
    /\ ffail' = "none"
    /\ UNCHANGED <<varsP, varsR, varsC, varsW, varsM, varsA, varsL, varsT, varsS, varsG, varsO, varsD, varsE, varsH>>

\* Lines 813-827: price and previous close are there; data[symbol] is
\* set and the loop is left.
intraday_data ==
    /\ Attempting("intraday")
    /\ \E v \in Prices : fdata' = Update(fdata, [s \in {fleft + 1} |-> PyFloat(v)])
    /\ fop' = "intraday_next"
    /\ UNCHANGED <<fattempt, fleft, flimited, fresult, secondary>>
    /\ ffail' = "data"
    /\ UNCHANGED <<varsP, varsR, varsC, varsW, varsM, varsA, varsL, varsT, varsS, varsG, varsO, varsD, varsE, varsH>>

\* Lines 828-829, 839-840: a missing field, or an error that is not a
\* rate limit: `break`.
intraday_break ==
    /\ Attempting("intraday")
    /\ fop' = "intraday_next"
    /\ UNCHANGED <<fattempt, fleft, flimited, fresult, fdata, secondary>>
    /\ ffail' \in {"empty"} \cup OtherErrors
    /\ UNCHANGED <<varsP, varsR, varsC, varsW, varsM, varsA, varsL, varsT, varsS, varsG, varsO, varsD, varsE, varsH>>

\* Lines 831-838: a rate-limit error: backoff and `continue` before the
\* last attempt, the end of the iteration on the last one.
intraday_limited ==
    /\ Attempting("intraday")
    /\ fattempt' = fattempt + 1
    /\ flimited' = flimited + 1
    /\ UNCHANGED <<fop, fleft, fresult, fdata, secondary>>
    /\ ffail' = "limited"
    /\ UNCHANGED <<varsP, varsR, varsC, varsW, varsM, varsA, varsL, varsT, varsS, varsG, varsO, varsD, varsE, varsH>>

\* Lines 813, 842: the range is exhausted for this symbol.
intraday_exhausted ==
    /\ fop = "intraday"
    /\ fresult = Absent
    /\ ~InRange(fattempt)
    /\ fop' = "intraday_next"
    /\ UNCHANGED <<fattempt, fleft, fcalls, flimited, fresult, fdata, secondary>>
    /\ UNCHANGED ffail
    /\ UNCHANGED <<varsP, varsR, varsC, varsW, varsM, varsA, varsL, varsT, varsS, varsG, varsO, varsD, varsE, varsH>>

\* Lines 811, 853: no symbol is left; data is returned.
intraday_return ==
    /\ fop = "intraday_next"
    /\ fleft = 0
    /\ fresult' = PyDict(fdata)
    /\ fop' = "intraday"
    /\ UNCHANGED <<fattempt, fleft, fcalls, flimited, fdata, secondary>>
    /\ UNCHANGED ffail
    /\ UNCHANGED <<varsP, varsR, varsC, varsW, varsM, varsA, varsL, varsT, varsS, varsG, varsO, varsD, varsE, varsH>>

\* The caller has the result; the next fetch may start.
fetch_end ==
    /\ fop # "none"
    /\ fresult # Absent
    /\ fop' = "none"
    /\ UNCHANGED <<fattempt, fleft, fcalls, flimited, fresult, fdata, secondary>>
    /\ UNCHANGED ffail
    /\ UNCHANGED <<varsP, varsR, varsC, varsW, varsM, varsA, varsL, varsT, varsS, varsG, varsO, varsD, varsE, varsH>>

NextF ==
    \/ fetch_start
    \/ do_fetch_price
    \/ do_fetch_empty
    \/ do_fetch_limited
    \/ do_fetch_error
    \/ do_fetch_exhausted
    \/ yfinance_batch_data
    \/ yfinance_batch_empty
    \/ yfinance_batch_limited
    \/ yfinance_batch_error
    \/ yfinance_batch_exhausted
    \/ intraday_symbol
    \/ intraday_data
    \/ intraday_break
    \/ intraday_limited
    \/ intraday_exhausted
    \/ intraday_return
    \/ fetch_end

Init == InitP /\ InitR /\ InitF /\ InitC /\ InitW /\ InitM /\ InitA /\ InitL /\ InitT /\ InitS /\ InitG /\ InitO /\ InitD /\ InitE /\ InitH
Next == NextP
Spec == Init /\ [][Next]_vars
SpecCoalescer == Init /\ [][NextCoalescer]_vars
\* The fetch function of a leader returns or raises, the leader goes on to
\* its finally block, and a started cleanup thread runs after its sleep.
SpecCoalescerFair ==
    /\ Init /\ [][NextRegistry]_vars
    /\ WF_vars(cleanup(OneSymbol))
    /\ WF_vars(\E t \in Threads :
                  \/ deduplicated_fetch_call(t)
                  \/ deduplicated_fetch_store(t)
                  \/ deduplicated_fetch_finally(t))
SpecRate == Init /\ [][NextR]_vars
SpecRetry == Init /\ [][NextS]_vars
SpecLocal == Init /\ [][NextO]_vars
SpecRequests == Init /\ [][NextD]_vars
SpecDelete == Init /\ [][NextE]_vars
SpecStock == Init /\ [][NextH]_vars
\* The limiter without the record of the releases of each tick.
InitQuota == InitP /\ InitR /\ InitF /\ InitC /\ InitW /\ InitM /\ InitA /\ InitL /\ InitT /\ InitS /\ InitQ /\ InitO /\ InitD /\ InitE /\ InitH
SpecQuota == InitQuota /\ [][NextR]_vars
\* Every running caller and the clock keep taking steps.
SpecRateFair ==
    /\ SpecRate
    /\ WF_vars(tick)
    /\ \A c \in Callers : WF_vars(rate_limit_redis(c))
SpecFetch == Init /\ [][NextF]_vars
SpecCache == Init /\ [][NextC]_vars
SpecBatch == Init /\ [][NextBatch]_vars
SpecBackend == Init /\ [][NextBackend]_vars
SpecRefresh == Init /\ [][NextW]_vars
SpecRevalidate == Init /\ [][NextRevalidate]_vars
SpecWarm == Init /\ [][NextM]_vars
\* A thread that start() has been called for is started, and a started
\* warming thread goes on: its refetch returns or raises, and its finally
\* block runs.
SpecWarmFair ==
    /\ Init /\ [][NextFlag]_vars
    /\ WF_vars(\E t \in Callers : warming_thread_start(t))
    /\ WF_vars(\E i \in Tasks :
                  \/ warm_cache_background_begin(i)
                  \/ warm_cache_background_done(i)
                  \/ warm_cache_background_failed(i)
                  \/ warm_cache_background_finally(i))
SpecMetrics == Init /\ [][NextA]_vars
SpecCounters == Init /\ [][NextCounters]_vars
SpecLoad == Init /\ [][NextL]_vars
SpecAccess == Init /\ [][NextT]_vars

\* ================================================================== claims

\* The threads inside the leader's part of _deduplicated_fetch for symbol s
\* (from the insertion of the entry to event.set()).
Leading(s) ==
    {t \in Threads : pc[t] \in {"fetching", "store", "finally"} /\ req[t] = {s}}

\* C1: for every key at most one thread is running the fetch function, and
\* while it runs the registry holds its own entry for the key, not yet
\* completed (result None, Event not set), whatever the cleanup threads of
\* earlier fetches and newly arriving callers do.
C1_SingleFlight ==
    \A s \in Symbols :
        /\ Cardinality(Leading(s)) <= 1
        /\ \A t \in Leading(s) :
              /\ pending_fetches[s] # Absent
              /\ pending_fetches[s].event = t
              /\ ~eventSet[t]
              /\ pc[t] = "fetching" => pending_fetches[s].result = PyNone

\* C1 witness: an earlier fetch of the key has been signalled and cleaned
\* up, a later leader is fetching the same key and a follower waits on it.
C1_Witness ==
    \E a, b, f \in Threads :
        /\ eventSet[a] /\ pc[b] = "fetching" /\ req[a] = req[b]
        /\ pc[f] = "waiting" /\ joined[f] = b

\* A follower to which _deduplicated_fetch has handed back price[f], with the
\* leader l whose Event it waited on.
Returned(f, l) == pc[f] = "writeback" /\ joined[f] = l

\* C2: a follower whose wait ended because the leader completed (no timeout)
\* is handed the value the leader's fetch function returned.
C2_FollowerGetsLeaderValue ==
    \A f, l \in Threads :
        Returned(f, l) /\ ~timedOut[f] /\ fetched[l] \in Floats \cup {PyNone}
            => price[f] = fetched[l]

\* C3: when the leader's fetch function raised, a follower of that fetch is
\* handed that error, not None or a float.
C3_FollowerGetsLeaderError ==
    \A f, l \in Threads :
        Returned(f, l) /\ ~timedOut[f] /\ fetched[l] = PyRaise
            => price[f] = PyRaise

\* C4: a follower signalled by a leader that fetched a price finds that
\* price in Redis, and its Supabase save done or started.
C4_CacheWrittenBeforeSignal ==
    \A f, l \in Threads :
        pc[f] = "woken" /\ joined[f] = l /\ ~timedOut[f] /\ IsPositive(fetched[l])
            => /\ redis[Sym(f)] = fetched[l]
               /\ \/ supabase[Sym(f)] = fetched[l]
                  \/ [x \in req[f] |-> fetched[l]] \in saves

\* The get_prices callers that found symbol s in no tier and have not
\* returned yet.
Missed(s) == {t \in Threads : pc[t] \in {"btier3", "download", "bstore"} /\ s \in todo[t]}

\* C5: of the get_prices callers that miss the cache for the same symbol at
\* the same time, only one calls the provider.
C5_BatchSingleFlight ==
    \A s \in Symbols :
        Cardinality({t \in Missed(s) : provCalls[t] > 0}) <= 1

\* C6: a follower whose 30 s wait expired is handed a timeout error: neither
\* a float nor None.
C6_TimeoutIsAnError ==
    \A f \in Threads :
        pc[f] = "writeback" /\ timedOut[f] => price[f] \notin Floats \cup {PyNone}

\* Callers released during the last second: a sliding window of
\* TicksPerSecond consecutive ticks, ending now.
RECURSIVE SumReleased(_)
SumReleased(i) == IF i = 0 THEN 0 ELSE released[i] + SumReleased(i - 1)

\* C7: in any one-second sliding window, also one that straddles a
\* unix-second boundary, the limiter releases at most SEC_REQ_PER_SECOND
\* calls, plus one of boundary tolerance.
C7_SlidingWindowQuota ==
    SumReleased(TicksPerSecond) <= SEC_REQ_PER_SECOND + 1

\* C8: a caller inside _rate_limit_redis gets out of it (the claim: it is
\* permitted, or gets an error after a bounded number of waits), also
\* when every window it tries is already full.
C8_AcquireReturns ==
    \A c \in Callers : (rpc[c] = "now") ~> (rpc[c] = "released")

\* The value the finished fetch holds for the key.
ResultForKey ==
    IF fresult.kind = "dict"
        THEN IF OneSymbol \in DOMAIN fresult.map
                 THEN fresult.map[OneSymbol] ELSE PyNone
        ELSE fresult

\* C9: when the primary provider answered every attempt of a finished
\* single or batch fetch with a rate-limit error, the result for the key
\* is what the secondary provider answers for it.
C9_FallsBackToSecondary ==
    ( /\ fop \in {"single", "batch"}
      /\ fresult # Absent
      /\ fcalls > 0
      /\ flimited = fcalls ) => ResultForKey = secondary

\* C10: no single-symbol, batch or per-symbol intraday fetch calls the
\* primary provider more than max_retries times, whatever the provider
\* answers, and a loop that has made max_retries calls makes no further
\* one.
C10_BoundedAttempts ==
    /\ fcalls <= max_retries
    /\ fattempt <= max_retries
    /\ fop \in {"single", "batch", "intraday"} /\ fresult = Absent
          /\ fcalls = max_retries => ~InRange(fattempt)

\* C10: a single-symbol fetch, a batch fetch and a symbol of the intraday
\* fetch that ended after max_retries rate-limited provider calls.
C10_Witness ==
    /\ fcalls = max_retries
    /\ flimited = max_retries
    /\ \/ fop \in {"single", "batch"} /\ fresult # Absent
       \/ fop = "intraday_next"

\* C11: in the single-symbol and in the batch fetch, a failed call is
\* followed by another attempt exactly when the failure was transient or
\* rate-limited and attempts remain; after a permanent failure the loop
\* makes no further attempt.
C11_RetryIffRetryable ==
    fop \in {"single", "batch"} =>
        /\ ffail = "permanent" => ~(fresult = Absent /\ InRange(fattempt))
        /\ ffail \in {"transient", "limited"} /\ fcalls < max_retries
              => fresult = Absent /\ InRange(fattempt)

C13_L1ExpiresNoLaterThanL2 ==
    \A k \in Keys :
        l1_cache[k] # Absent /\ l2[k] # Absent /\ l1_cache[k].data = l2[k].data
            => l1_cache[k].left <= l2[k].left

\* C14: after invalidate_cache(symbol), called once or repeatedly, the
\* symbol has no entry in L1, in L2 or in L3.
C14_InvalidateClearsAllTiers ==
    last.op = "invalidate_cache" =>
        \A k \in last.keys :
            /\ l1_cache[k] = Absent
            /\ l2[k] = Absent
            /\ l3[k] = Absent

C17_OneRefreshPerStaleRow ==
    \A k \in Keys : refreshes[k] <= 1

\* C18: a row read from L3 is fresh exactly when its age is below the
\* window of the market status of the moment, 300 s when OPEN and 3600 s
\* when CLOSED: a row written 30 minutes ago is valid when the market is
\* CLOSED and stale when it is OPEN.
C18_FreshnessByAgeAndStatus ==
    last.op = "get_from_supabase" =>
        /\ last.status = "OPEN" => (last.stale <=> last.age >= 300)
        /\ last.status = "CLOSED" => (last.stale <=> last.age >= 3600)
        /\ last.age = 1800 /\ last.status = "CLOSED" => ~last.stale
        /\ last.age = 1800 /\ last.status = "OPEN" => last.stale
        /\ last.stale <=> ~(last.age < AppropriateSupabaseTTL(last.status))

\* C18: a row written 30 minutes ago was read while the market was OPEN
\* and was flagged stale.
C18_Witness ==
    /\ last.op = "get_from_supabase"
    /\ last.age = 1800
    /\ last.status = "OPEN"
    /\ last.stale

\* The warming threads that exist, and the callers that have set the flag
\* and are about to start one.
Warming == {i \in Tasks : tpc[i] # "none"}
Starting == {t \in Callers : mpc[t] = "start"}

\* C19: at most one background warming task runs at any time, whatever
\* the interleaving of the start_background_warming calls: the flag is
\* tested and set in one step, so at most one caller at a time is starting
\* a task or has one running, and the flag stays set from that step until
\* the task clears it when it ends.
C19_SingleWarmingTask ==
    /\ Cardinality(Warming) + Cardinality(Starting) <= 1
    /\ is_warming <=> (Warming # {} \/ Starting # {})

\* C19 witness: a task is warming, and another caller's
\* start_background_warming returned because the flag was set although
\* the interval had elapsed and a popular symbol existed.
C19_Witness ==
    /\ \E i \in Tasks : tpc[i] = "warm"
    /\ \E t \in Callers : mres[t] = "busy"
    /\ ShouldStartIgnoringFlag

\* C20: a caller of start_background_warming that goes on to start a task
\* found a popular symbol, and the warming interval had elapsed since the
\* last run ended, whether that run succeeded or failed.
C20_StartsOnlyAfterInterval ==
    \A t \in Callers :
        mpc[t] = "start" =>
            /\ popular_symbols # {}
            /\ since_run > warm_interval

\* C21: a get_prices for two symbols that no tier had, answered by the
\* provider for both, returns both prices, records one call of the batch
\* service and no cache hit, and leaves both keys in L1 and, with a Redis
\* client connected and answering, of either type, in L2.
C21_ColdBatchFillsL1AndL2 ==
    /\ last.op = "get_prices"
    /\ last.use_cache
    /\ Cardinality(last.keys) = 2
    /\ \A k \in last.keys : last.served[k] = "provider"
    =>
    /\ \A k \in last.keys : last.ret[k] \in Floats
    /\ last.calls = [hits |-> 0, misses |-> 0, batch |-> 1]
    /\ \A k \in last.keys :
          /\ l1_cache[k] # Absent
          /\ last.l2_up => l2[k] # Absent

\* C22: a get_price with the cache, less than l1_ttl seconds after a
\* get_price of the symbol obtained a price from a slower tier or from the
\* provider and with nothing but the passing of time in between, does not
\* go to the provider, returns that price and records one cached call.
C22_SecondCallIsCacheHit ==
    last.op = "get_price" /\ last.use_cache =>
        \A k \in last.keys :
            last.before[k] # Absent =>
                /\ "provider" \notin last.touched[k]
                /\ last.ret[k] = PyFloat(last.before[k].price)
                /\ last.calls = [hits |-> 1, misses |-> 0, batch |-> 0]

\* C23: the steps of a follower whose wait timed out, the expiry of the
\* wait and the lookup after it, leave the registry, the Events and the
\* cleanup threads as they were and move no other thread: the leader
\* goes on fetching, the other waiters go on waiting for its Event, and
\* the entry stays for the leader's cleanup thread to delete.
C23_AbandonedWaitChangesNothing ==
    [][\A f \in Threads :
          pc[f] \in {"waiting", "woken"} /\ pc'[f] # pc[f] /\ timedOut'[f]
          => /\ pending_fetches' = pending_fetches
             /\ eventSet' = eventSet
             /\ cleanups' = cleanups
             /\ \A u \in Threads \ {f} :
                   /\ pc'[u] = pc[u]
                   /\ price'[u] = price[u]
                   /\ joined'[u] = joined[u]]_vars

\* C23 witness: a follower has given up on its timeout and read the
\* entry while the leader is still fetching, the leader's entry is in
\* the registry and another follower still waits for the leader's Event.
C23_Witness ==
    \E l, f, w \in Threads :
        /\ pc[l] = "fetching"
        /\ pc[f] = "writeback" /\ timedOut[f] /\ joined[f] = l
        /\ pc[w] = "waiting" /\ joined[w] = l
        /\ pending_fetches[Sym(l)] = Entry(l, PyNone)

\* C24: for each loader at most one thread at a time is downloading the
\* index, with the cache unset; every sec_get of a loader but the ones
\* that raised has set the cache, so that one download succeeds per
\* process at most and none is started after it; a load that raised
\* leaves the cache unset.
C24_IndexLoadedOnce ==
    \A L \in Loaders :
        /\ Cardinality({t \in Threads : lpc[t] = "download" /\ loader[t] = L}) <= 1
        /\ \A t \in Threads :
              lpc[t] = "download" /\ loader[t] = L =>
                  index[L] = PyNone /\ load_lock[L] = t
        /\ downloads[L] - failures[L] <= 1
        /\ index[L] # PyNone <=> downloads[L] - failures[L] = 1

\* C24 witness: a load of a loader raised, a later call loaded the index
\* and a third caller of the loader got it from the cache.
C24_Witness ==
    \E L \in Loaders : \E a, b, c \in Threads :
        /\ failures[L] = 1 /\ downloads[L] = 2
        /\ loader[a] = L /\ lret[a] = "raised"
        /\ loader[b] = L /\ lret[b] = "loaded"
        /\ loader[c] = L /\ lret[c] = "cached"

\* The last n elements of a sequence.
Newest(q, n) == SubSeq(q, Len(q) - n + 1, Len(q))

\* C25: after any number of record_api_call invocations the recorder holds
\* for each service at most max_response_times latencies, the ones
\* recorded last in the order they came, and the average of the service is
\* the sum of those latencies divided by their number.
C25_RollingWindow ==
    \A s \in Services :
        /\ Len(response_times[s]) <= max_response_times
        /\ response_times[s] =
              Newest(recorded[s], Min(Len(recorded[s]), max_response_times))
        /\ recorded[s] # <<>> =>
              metrics[s].avg_response_time_ms =
                  [sum |-> Sum(response_times[s]), len |-> Len(response_times[s])]

\* C25 witness: more calls than the window holds were recorded for a
\* service, the evicted ones with another latency than the newest.
C25_Witness ==
    \E s \in Services :
        /\ Len(recorded[s]) > max_response_times + 1
        /\ recorded[s][1] # recorded[s][Len(recorded[s])]
        /\ recorded[s][2] # recorded[s][Len(recorded[s]) - 1]

\* C26: a symbol is popular exactly when min_access_count accesses of it
\* were counted, and the accesses that made it popular lie within one
\* tracking window: less than the longest span the service tells apart
\* lies between the first and the last of them.
C26_PopularWithinWindow ==
    \A s \in Symbols :
        /\ s \in popular_symbols <=> symbol_access_counts[s] >= min_access_count
        /\ s \in popular_symbols => access_span[s] < LongAgo

\* C27: a caller about to send a request to the SEC has passed the rate
\* limiter since the last request it sent: none of the requests of its
\* sec_get call went out before.
C27_EveryRequestIsLimited ==
    \A c \in Callers : rpc[c] = "released" => attempts[c] = 0

C29_FreshnessFromFetchTime ==
    last.op \in Lookups => \A k \in last.flagged : ~Tier1Hit(k)

\* C30: every entry inserted into the in-flight registry is removed again
\* after its Event was set, also when the fetch function raised, so that
\* once no fetch is running the registry becomes empty; and no entry is
\* removed before its Event was set.
C30_RegistryCleanup ==
    /\ [][\A s \in Symbols :
             pending_fetches[s] # Absent /\ pending_fetches'[s] = Absent
                 => eventSet[pending_fetches[s].event]]_vars
    /\ \A s \in Symbols :
          (pending_fetches[s] # Absent) ~> (pending_fetches[s] = Absent)
    /\ (\A s \in Symbols : Leading(s) = {})
          ~> (\A s \in Symbols : pending_fetches[s] = Absent)

\* C30 witness: the fetch function of a leader raised, its Event was set,
\* its cleanup thread has run and the registry is empty, and the fetch of
\* a later leader of the same key has ended and left its entry, which
\* waits for its cleanup thread.
C30_Witness ==
    \E a, b \in Threads :
        /\ a # b /\ req[a] = req[b]
        /\ fetched[a] = PyRaise /\ ret[a] = PyRaise /\ eventSet[a]
        /\ pc[b] \in {"writeback", "done"} /\ eventSet[b]
        /\ \A s \in req[b] :
              /\ pending_fetches[s] # Absent
              /\ pending_fetches[s].event = b
              /\ cleanups[s] = 1

\* C31: _fetch_lock is held for registry reads and writes only, never
\* across a call of the provider: no get_price caller that is about to
\* insert its entry, or to read the result after its wait, finds the lock
\* held by a thread whose batch download is in progress.
C31_LockNotHeldAcrossProviderCall ==
    \A t, u \in Threads :
        ~(/\ pc[t] = "download" /\ fetch_lock = t
          /\ pc[u] \in {"tier3", "woken"})

\* C32: a read that finds an L3 row past its freshness window returns the
\* stale value without calling the provider and puts the key in the
\* background-refresh set, where it stays until the worker takes the
\* keys of the set over and refetches them, and a price the provider gave is written to L1, to L2
\* when the Redis server answers, and to L3 when Supabase answers.
C32_StaleWhileRevalidate ==
    /\ last.op \in Lookups =>
          \A k \in last.flagged :
              /\ last.served[k] = "L3"
              /\ "provider" \notin last.touched[k]
              /\ last.ret[k] = PyFloat(l3[k].price)
              /\ k \in background_refresh_queue \cup symbols_to_refresh
    /\ wpc = "fetch" => symbols_to_refresh # {}
    /\ last.op = "refresh" =>
          \A k \in last.refetched :
              /\ l1_cache[k] # Absent /\ l1_cache[k].data.age = 0
              /\ last.l2_up =>
                    l2[k] # Absent /\ l2[k].data = l1_cache[k].data
              /\ last.l3_up => l3[k] = Row(l1_cache[k].data.price, 0)

\* C33: without Redis sec_get goes through _rate_limit_local, and any two
\* requests it releases, whatever the number of threads calling, lie one
\* second apart at least on the monotonic clock.
C33_LocalFallbackSpacing ==
    /\ local_gap >= TicksPerSecond
    /\ \A c \in Callers :
          qpc[c] \in {"elapsed", "sleep"} <=> local_rate_lock = c

\* C33 witness: two requests at least were released, the last one less
\* than a second ago, and a caller holds the lock and sleeps while another
\* waits for the lock.
C33_Witness ==
    /\ local_released = 2
    /\ since_request < TicksPerSecond
    /\ \E c, d \in Callers :
          /\ qpc[c] = "sleep" /\ local_sleep > 0
          /\ qpc[d] = "lock"

\* C34: between a granted acquire_request_lock(key) and the complete_request
\* of the caller it was granted to, no other caller is granted leadership
\* of the key, the stale-entry cleanup included: one thread at most is a
\* leader of the key.
C34_OneLeaderPerKey ==
    Cardinality({t \in Threads : dpc[t] = "leader"}) <= 1

\* C35: once delete(key) has returned and no set(key) was issued since, no
\* tier holds the key, whatever the readers of the key were doing when it
\* was deleted.
C35_DeleteIsEffective ==
    \A k \in Keys :
        deleted[k] => l1_cache[k] = Absent /\ l2[k] = Absent

\* C36: a price-only write-back leaves the previous_close of a row that is
\* already stored as it was: after the upsert of a data_dict whose dicts
\* have no "previous_close", every symbol of it that had a row before has
\* the previous_close that row had.
C36_PriceOnlySaveKeepsPreviousClose ==
    saved.op = "upsert" =>
        \A s \in DOMAIN saved.data_dict :
            ("previous_close" \notin DOMAIN saved.data_dict[s]
             /\ saved.before[s] # Absent)
                => stock[s].previous_close = saved.before[s].previous_close

\* C37: for every service, after any record_api_call invocations,
\* total_calls = successful_calls + failed_calls = cache_hits +
\* cache_misses and rate_limit_hits <= total_calls, and no step lowers a
\* counter.
C37_CounterIdentities ==
    /\ [](\A s \in Services :
            /\ metrics[s].total_calls =
                  metrics[s].successful_calls + metrics[s].failed_calls
            /\ metrics[s].total_calls =
                  metrics[s].cache_hits + metrics[s].cache_misses
            /\ metrics[s].rate_limit_hits <= metrics[s].total_calls)
    /\ [][\A s \in Services : \A f \in Counters :
            metrics'[s][f] >= metrics[s][f]]_vars

\* C37 witness: one service has recorded successes and failures, cache
\* hits and misses and a rate-limit hit, and another service has calls too.
C37_Witness ==
    \E s, o \in Services :
        /\ s # o /\ metrics[o].total_calls > 0
        /\ metrics[s].successful_calls > 0 /\ metrics[s].failed_calls > 1
        /\ metrics[s].cache_hits > 0 /\ metrics[s].cache_misses > 0
        /\ metrics[s].rate_limit_hits > 0
        /\ metrics[s].rate_limit_hits < metrics[s].failed_calls

\* C38: whenever the is-warming flag is set it is cleared later, whether
\* the refetch of the run returns prices, returns none or raises.
C38_FlagEventuallyCleared == is_warming ~> ~is_warming

\* C38 witness: a run whose refetch raised has just ended with the flag
\* cleared: the last successful warming is long ago and a caller was told
\* that its call started the run.
C38_Witness ==
    /\ ~is_warming /\ since_run = 0 /\ since_warm = LongAgo
    /\ \E t \in Callers : mres[t] = "started"
    /\ \A i \in Tasks : tpc[i] = "none"

====
